---- MODULE Spec2Model ----
(***************************************************************************)
(* Model of the SIOCOM invoice extractors (ESSA and Air-e families).       *)
(*                                                                         *)
(* A text is a sequence of one-character strings.  The regular             *)
(* expressions of the two data_extractor modules are written as syntax     *)
(* trees and run by a backtracking matcher that follows the matching       *)
(* order of Python's re module (greedy and lazy repetition, ordered        *)
(* alternatives, leftmost match).  Python dictionaries are functions       *)
(* whose DOMAIN is the set of keys present; lists are sequences; a float   *)
(* is a decimal record [neg, ent, frac].                                   *)
(***************************************************************************)
EXTENDS Integers, Sequences, FiniteSets, TLC

(***************************************************************************)
(* Character classes of the re module, over the alphabet of the texts.     *)
(***************************************************************************)
Digitos == {"0", "1", "2", "3", "4", "5", "6", "7", "8", "9"}

Mayusculas ==
  {"A", "B", "C", "D", "E", "F", "G", "H", "I", "J", "K", "L", "M", "N",
   "O", "P", "Q", "R", "S", "T", "U", "V", "W", "X", "Y", "Z"}

Minusculas ==
  {"a", "b", "c", "d", "e", "f", "g", "h", "i", "j", "k", "l", "m", "n",
   "o", "p", "q", "r", "s", "t", "u", "v", "w", "x", "y", "z"}

MayusculasAcento == {"Á", "É", "Í", "Ó", "Ú", "Ñ"}

MinusculasAcento == {"á", "é", "í", "ó", "ú", "ñ"}

\* \s
Espacios == {" ", "\n", "\t"}

\* \w
Palabra ==
  Digitos \cup Mayusculas \cup Minusculas \cup MayusculasAcento
          \cup MinusculasAcento \cup {"_"}

(***************************************************************************)
(* Regular-expression syntax trees.  A pattern is a sequence of items;     *)
(* every constructor below yields a sequence, so that a pattern is written *)
(* as a concatenation.  max = -1 stands for an unbounded repetition.       *)
(***************************************************************************)
\* Upper- and lower-case letters, position by position (re.IGNORECASE).
MayusSeq ==
  <<"A", "B", "C", "D", "E", "F", "G", "H", "I", "J", "K", "L", "M", "N",
    "O", "P", "Q", "R", "S", "T", "U", "V", "W", "X", "Y", "Z",
    "Á", "É", "Í", "Ó", "Ú", "Ñ">>

MinusSeq ==
  <<"a", "b", "c", "d", "e", "f", "g", "h", "i", "j", "k", "l", "m", "n",
    "o", "p", "q", "r", "s", "t", "u", "v", "w", "x", "y", "z",
    "á", "é", "í", "ó", "ú", "ñ">>

\* The character c in both cases.
Cajas(c) ==
  {c} \cup {MinusSeq[i] : i \in {j \in 1..Len(MayusSeq) : MayusSeq[j] = c}}
      \cup {MayusSeq[i] : i \in {j \in 1..Len(MinusSeq) : MinusSeq[j] = c}}

\* A literal phrase, case-sensitive and case-insensitive: one item holding,
\* for each position, the set of characters accepted there.
Frase(s) == <<[t |-> "lit", ss |-> [i \in 1..Len(s) |-> {s[i]}]]>>

FraseI(s) == <<[t |-> "lit", ss |-> [i \in 1..Len(s) |-> Cajas(s[i])]]>>

\* One repeated character class: the characters in s (not in s, if neg),
\* min to max times, as few as possible if lazy; cap is the capture group
\* the item alone makes up, or 0.
R(s, neg, min, max, lazy) ==
  <<[t |-> "cls", s |-> s, neg |-> neg, min |-> min, max |-> max,
     lazy |-> lazy, cap |-> 0]>>

\* s+  s*  s?  s+?
Mas(s) == R(s, FALSE, 1, -1, FALSE)

Ast(s) == R(s, FALSE, 0, -1, FALSE)

Opc(s) == R(s, FALSE, 0, 1, FALSE)

MasL(s) == R(s, FALSE, 1, -1, TRUE)

\* \s+ and \s*
S1 == Mas(Espacios)

S0 == Ast(Espacios)

Abre(n) == <<[t |-> "abre", n |-> n]>>

Cierra(n) == <<[t |-> "cierra", n |-> n]>>

\* ( a | b | ... ) without capture: the alternatives in order
Alt(alts) == <<[t |-> "alt", alts |-> alts]>>

\* Capture group n around one body
Cap(n, body) ==
  IF Len(body) = 1 /\ body[1].t = "cls"
  THEN <<[body[1] EXCEPT !.cap = n]>>
  ELSE Abre(n) \o body \o Cierra(n)

\* Capture group n around a choice of bodies
CapAlt(n, alts) == Abre(n) \o Alt(alts) \o Cierra(n)

\* (?: body ){min,max}, greedy
Veces(body, min, max) ==
  <<[t |-> "rep", body |-> body, min |-> min, max |-> max]>>

\* (?= a | b ), $ and ^
Adelante(alts) == <<[t |-> "look", alts |-> alts]>>

Eol == <<[t |-> "eol"]>>

Bol == <<[t |-> "bol"]>>

\* A compiled pattern: its items and its number of capture groups.
Patron(items, ng) == [items |-> items, ng |-> ng]

NoMatch == [ok |-> FALSE, ini |-> 0, fin |-> 0, caps |-> <<>>]

EnClase(c, it) == (c \in it.s) # it.neg

\* The longest run of characters of the class of item it from pos on,
\* at most lim long.
Racha(T, pos, it, lim) ==
  CHOOSE n \in 0..lim :
    /\ \A i \in 0..(n - 1) : EnClase(T[pos + i], it)
    /\ n = lim \/ ~EnClase(T[pos + n], it)

(***************************************************************************)
(* The backtracking matcher.  k is the list of items still to be matched   *)
(* (the continuation), pos the position in the text T, caps the spans of   *)
(* the capture groups.  Among the ways to match, the one Python's re       *)
(* prefers is returned: a greedy class takes the longest run for which     *)
(* the continuation matches, a lazy one the shortest; alternatives are     *)
(* tried in order.                                                         *)
(***************************************************************************)
RECURSIVE M(_, _, _, _)
M(T, k, pos, caps) ==
  IF k = <<>> THEN [ok |-> TRUE, ini |-> 0, fin |-> pos, caps |-> caps]
  ELSE
    LET it == k[1]
        r  == Tail(k)
    IN
    CASE it.t = "lit" ->
           IF /\ pos + Len(it.ss) - 1 <= Len(T)
              /\ \A i \in 1..Len(it.ss) : T[pos + i - 1] \in it.ss[i]
           THEN M(T, r, pos + Len(it.ss), caps) ELSE NoMatch
      [] it.t = "cls" ->
           LET resto == Len(T) - pos + 1
               lim   == IF it.max = -1 \/ it.max > resto THEN resto ELSE it.max
               run   == Racha(T, pos, it, lim)
               con(n) == IF it.cap = 0 THEN caps
                         ELSE [caps EXCEPT ![it.cap] = <<pos, pos + n>>]
               Rs    == {[n |-> n, r |-> M(T, r, pos + n, con(n))] :
                            n \in it.min..run}
               OKs   == {x \in Rs : x.r.ok}
           IN IF r = <<>>
              THEN (IF run < it.min THEN NoMatch
                    ELSE LET n == IF it.lazy THEN it.min ELSE run
                         IN [ok |-> TRUE, ini |-> 0, fin |-> pos + n,
                             caps |-> con(n)])
              ELSE IF OKs = {} THEN NoMatch
              ELSE IF it.lazy
              THEN (CHOOSE x \in OKs : \A y \in OKs : x.n <= y.n).r
              ELSE (CHOOSE x \in OKs : \A y \in OKs : x.n >= y.n).r
      [] it.t = "abre" ->
           M(T, r, pos, [caps EXCEPT ![it.n] = <<pos, pos>>])
      [] it.t = "cierra" ->
           M(T, r, pos, [caps EXCEPT ![it.n] = <<caps[it.n][1], pos>>])
      [] it.t = "alt" ->
           LET Rs  == {[n |-> i, r |-> M(T, it.alts[i] \o r, pos, caps)] :
                          i \in 1..Len(it.alts)}
               OKs == {x \in Rs : x.r.ok}
           IN IF OKs = {} THEN NoMatch
              ELSE (CHOOSE x \in OKs : \A y \in OKs : x.n <= y.n).r
      [] it.t = "rep" ->
           LET menos == [it EXCEPT !.min = IF it.min > 0 THEN it.min - 1 ELSE 0,
                                   !.max = IF it.max = -1 THEN -1
                                           ELSE it.max - 1]
               iter == M(T, it.body \o <<menos>> \o r, pos, caps)
               skip == M(T, r, pos, caps)
           IN IF it.max # 0 /\ iter.ok THEN iter
              ELSE IF it.min = 0 THEN skip ELSE NoMatch
      [] it.t = "look" ->
           IF \E i \in 1..Len(it.alts) : M(T, it.alts[i], pos, caps).ok
           THEN M(T, r, pos, caps) ELSE NoMatch
      [] it.t = "eol" ->
           IF pos = Len(T) + 1 \/ (pos = Len(T) /\ T[pos] = "\n")
           THEN M(T, r, pos, caps) ELSE NoMatch
      [] it.t = "bol" ->
           IF pos = 1 THEN M(T, r, pos, caps) ELSE NoMatch

SinCapturas(ng) == [i \in 1..ng |-> <<0, 0>>]

\* The match of p that starts at pos.
EnPos(p, T, pos) ==
  [M(T, p.items, pos, SinCapturas(p.ng)) EXCEPT !.ini = pos]

\* re.match(p, T): a match anchored at the start of T.
re_match(p, T) == EnPos(p, T, 1)

\* The leftmost match of p that starts at pos or later.
BuscarDesde(p, T, pos) ==
  LET Ps == {q \in pos..(Len(T) + 1) : EnPos(p, T, q).ok}
  IN IF Ps = {} THEN NoMatch
     ELSE EnPos(p, T, CHOOSE q \in Ps : \A q2 \in Ps : q <= q2)

\* re.search(p, T): the leftmost match.
re_search(p, T) == BuscarDesde(p, T, 1)

\* m.group(n); group 0 is the whole match, an unset group is "".
group(T, m, n) ==
  IF n = 0 THEN SubSeq(T, m.ini, m.fin - 1)
  ELSE SubSeq(T, m.caps[n][1], m.caps[n][2] - 1)

\* One element of the list re.findall returns.
Hallazgo(p, T, m) ==
  IF p.ng = 0 THEN group(T, m, 0)
  ELSE IF p.ng = 1 THEN group(T, m, 1)
  ELSE [i \in 1..p.ng |-> group(T, m, i)]

RECURSIVE TodosDesde(_, _, _)
TodosDesde(p, T, pos) ==
  LET m == BuscarDesde(p, T, pos)
  IN IF ~m.ok THEN <<>>
     ELSE <<Hallazgo(p, T, m)>>
          \o TodosDesde(p, T, IF m.fin = m.ini THEN m.fin + 1 ELSE m.fin)

\* re.findall(p, T): the non-overlapping matches, left to right.
re_findall(p, T) == TodosDesde(p, T, 1)

(***************************************************************************)
(* Python values.  A dict is a function on the keys present; d[k] = v      *)
(* adds or overwrites one key.  A call either returns a value or raises.   *)
(***************************************************************************)
DictVacio == <<>>

Poner(d, k, v) == [x \in DOMAIN d \cup {k} |-> IF x = k THEN v ELSE d[x]]

Ok(v) == [exc |-> FALSE, v |-> v]

\* The ValueError of float('') and the like.
Err == [exc |-> TRUE, v |-> <<>>]

\* The outcome of a series of statements that fill keys of one dict, os
\* being their outcomes in order: a statement that raises ends the method,
\* and otherwise a later statement overwrites what an earlier one set.
Reunir(os) ==
  IF \E i \in DOMAIN os : os[i].exc THEN Err
  ELSE Ok([k \in UNION {DOMAIN os[i].v : i \in DOMAIN os} |->
             os[CHOOSE i \in DOMAIN os :
                  /\ k \in DOMAIN os[i].v
                  /\ \A j \in DOMAIN os : j > i => k \notin DOMAIN os[j].v].v[k]])

RECURSIVE Aplanar(_)
Aplanar(ss) == IF ss = <<>> THEN <<>> ELSE Head(ss) \o Aplanar(Tail(ss))

\* The outcome of a loop that appends to one list, os[i] being the outcome
\* of its i-th round (the items the round appends).
Concatenar(os) ==
  IF \E i \in DOMAIN os : os[i].exc THEN Err
  ELSE Ok(Aplanar([i \in DOMAIN os |-> os[i].v]))

\* Several conversions that may raise, fs being their outcomes, and De of
\* the converted values when none does.
Convertidos(fs, De(_)) ==
  IF \E i \in DOMAIN fs : fs[i].exc THEN Err
  ELSE Ok(De([i \in DOMAIN fs |-> fs[i].v]))

\* match = re.search(...); if match: D(match), and otro when there is no
\* match.
SiCoincideSiNo(m, D(_), otro) == IF m.ok THEN D(m) ELSE otro

\* match = re.search(...); if match: D(match)
SiCoincide(m, D(_)) == SiCoincideSiNo(m, D, Ok(DictVacio))

\* matches = re.findall(...); if matches: D(matches)
SiHay(matches, D(_)) == IF matches # <<>> THEN D(matches) ELSE Ok(DictVacio)

\* d[k] = float(...), f being the outcome of the conversion
Flotante(k, f) == IF f.exc THEN Err ELSE Ok(Poner(DictVacio, k, f.v))

\* conceptos.append(...) of an item whose construction may raise
Uno(o) == IF o.exc THEN Err ELSE Ok(<<o.v>>)

\* A tier that is skipped because the list is not empty.
NoCorrio(conceptos) == [exc |-> FALSE, v |-> conceptos, corrio |-> FALSE]

\* A tier that runs and appends the items of nuevos, unless it raises.
Agregados(conceptos, nuevos) ==
  IF nuevos.exc THEN [exc |-> TRUE, v |-> <<>>, corrio |-> TRUE]
  ELSE [exc |-> FALSE, v |-> conceptos \o nuevos.v, corrio |-> TRUE]

\* The tier F on the list an earlier tier left, unless that one raised.
Luego(o, F(_)) == IF o.exc THEN o ELSE F(o.v)

\* return conceptos
Devuelto(o) == IF o.exc THEN Err ELSE Ok(o.v)

(***************************************************************************)
(* str methods.                                                            *)
(***************************************************************************)
\* s.replace(c, '')
Quitar(s, c) == SelectSeq(s, LAMBDA x : x # c)

\* s.replace(a, b) for single characters a, b
Cambiar(s, a, b) == [i \in 1..Len(s) |-> IF s[i] = a THEN b ELSE s[i]]

\* s.strip()
strip(s) ==
  LET N == {i \in 1..Len(s) : s[i] \notin Espacios}
  IN IF N = {} THEN <<>>
     ELSE SubSeq(s, CHOOSE i \in N : \A j \in N : i <= j,
                    CHOOSE i \in N : \A j \in N : i >= j)

\* s.split('\n'): line n runs between the (n-1)-th and the n-th newline
split_lineas(s) ==
  LET NL     == {i \in 1..Len(s) : s[i] = "\n"}
      Corte(n) == IF n = 0 THEN 0
                  ELSE IF n > Cardinality(NL) THEN Len(s) + 1
                  ELSE CHOOSE i \in NL : Cardinality({j \in NL : j < i}) = n - 1
  IN [n \in 1..(Cardinality(NL) + 1) |->
        SubSeq(s, Corte(n - 1) + 1, Corte(n) - 1)]

\* s.upper()
Mayus(c) ==
  IF \E j \in 1..Len(MinusSeq) : MinusSeq[j] = c
  THEN MayusSeq[CHOOSE j \in 1..Len(MinusSeq) : MinusSeq[j] = c]
  ELSE c

upper(s) == [i \in 1..Len(s) |-> Mayus(s[i])]

\* sub in s
Contiene(s, sub) ==
  \E i \in 1..(Len(s) - Len(sub) + 1) : SubSeq(s, i, i + Len(sub) - 1) = sub

(***************************************************************************)
(* Numbers.  A float is a decimal: sign, integer digits without leading    *)
(* zeros, fraction digits without trailing zeros; two floats are equal iff *)
(* their records are equal.  A float that holds an integer is the binary64 *)
(* nearest to it (exact below 2^53), and the sum and the quotient of such  *)
(* floats are rounded as binary64 rounds them; a decimal with a fraction   *)
(* is kept as written.                                                     *)
(***************************************************************************)
RECURSIVE SinCerosIzq(_)
SinCerosIzq(s) ==
  IF s # <<>> /\ Head(s) = "0" THEN SinCerosIzq(Tail(s)) ELSE s

RECURSIVE SinCerosDer(_)
SinCerosDer(s) ==
  IF s # <<>> /\ s[Len(s)] = "0"
  THEN SinCerosDer(SubSeq(s, 1, Len(s) - 1)) ELSE s

Decimal(neg, ent, frac) ==
  LET e == SinCerosIzq(ent)
      f == SinCerosDer(frac)
  IN [neg |-> neg /\ (e # <<>> \/ f # <<>>), ent |-> e, frac |-> f]

\* Position of the first "." of s, or 0.
PosPunto(s) ==
  IF \E i \in 1..Len(s) : s[i] = "."
  THEN CHOOSE i \in 1..Len(s) : s[i] = "." /\ \A j \in 1..(i - 1) : s[j] # "."
  ELSE 0

ValorDigito(c) ==
  CASE c = "0" -> 0 [] c = "1" -> 1 [] c = "2" -> 2 [] c = "3" -> 3
    [] c = "4" -> 4 [] c = "5" -> 5 [] c = "6" -> 6 [] c = "7" -> 7
    [] c = "8" -> 8 [] c = "9" -> 9

\* a < b for strings of digits of one length
RECURSIVE MenorDigitos(_, _)
MenorDigitos(a, b) ==
  IF a = <<>> THEN b # <<>>
  ELSE IF b = <<>> THEN FALSE
  ELSE IF Head(a) # Head(b) THEN ValorDigito(Head(a)) < ValorDigito(Head(b))
  ELSE MenorDigitos(Tail(a), Tail(b))

\* Natural numbers of any size are strings of digits without leading
\* zeros, <<>> being zero.  The digit of n, and the digits of a small n.
Cifra(n) == <<"0", "1", "2", "3", "4", "5", "6", "7", "8", "9">>[n + 1]

RECURSIVE Cifras(_)
Cifras(n) == IF n = 0 THEN <<>> ELSE Append(Cifras(n \div 10), Cifra(n % 10))

\* All the digits of a but the last, and the value of the last.
Frente(a) == SubSeq(a, 1, Len(a) - 1)

Unidad(a) == IF a = <<>> THEN 0 ELSE ValorDigito(a[Len(a)])

\* a + b + c, for a carry c
RECURSIVE NSuma(_, _, _)
NSuma(a, b, c) ==
  IF a = <<>> /\ b = <<>> THEN Cifras(c)
  ELSE Append(NSuma(Frente(a), Frente(b), (Unidad(a) + Unidad(b) + c) \div 10),
              Cifra((Unidad(a) + Unidad(b) + c) % 10))

\* a * k + c, for small k and c
RECURSIVE NPor(_, _, _)
NPor(a, k, c) ==
  IF a = <<>> THEN Cifras(c)
  ELSE Append(NPor(Frente(a), k, (Unidad(a) * k + c) \div 10),
              Cifra((Unidad(a) * k + c) % 10))

\* a * k^e for a small k, k^paso at a time
RECURSIVE NPorPotencia(_, _, _, _)
NPorPotencia(a, k, e, paso) ==
  IF e <= paso THEN NPor(a, k ^ e, 0)
  ELSE NPorPotencia(NPor(a, k ^ paso, 0), k, e - paso, paso)

\* a * 2^e and a * 5^e
PorDosALa(a, e) == NPorPotencia(a, 2, e, 26)

PorCincoALa(a, e) == NPorPotencia(a, 5, e, 10)

\* <<a \div d, a % d>> for a small d: the step for one more digit u, and
\* the division.
NDivPaso(p, u, d) ==
  <<Append(p[1], Cifra((p[2] * 10 + u) \div d)), (p[2] * 10 + u) % d>>

RECURSIVE NDiv(_, _)
NDiv(a, d) ==
  IF a = <<>> THEN <<<<>>, 0>> ELSE NDivPaso(NDiv(Frente(a), d), Unidad(a), d)

NCociente(a, d) == SinCerosIzq(NDiv(a, d)[1])

NResto(a, d) == NDiv(a, d)[2]

\* a \div 2^e
RECURSIVE EntreDosALa(_, _)
EntreDosALa(a, e) ==
  IF e <= 26 THEN NCociente(a, 2 ^ e)
  ELSE EntreDosALa(NCociente(a, 2 ^ 26), e - 26)

\* a < b
NMenor(a, b) == Len(a) < Len(b) \/ (Len(a) = Len(b) /\ MenorDigitos(a, b))

\* 2^52 and 2^53: a binary64 has 53 significant bits.
DosALa52 ==
  <<"4", "5", "0", "3", "5", "9", "9", "6", "2", "7", "3", "7", "0", "4", "9",
    "6">>

DosALa53 == NPor(DosALa52, 2, 0)

\* An upper bound of the number of bits of a number of l digits: 3322/1000
\* is log2(10), rounded up.
BitsMax(l) == (l * 3322) \div 1000 + 1

\* The exponent of the binary64 of a number n >= 2^53: the least e with
\* n \div 2^e < 2^53.
Exponente(n) ==
  CHOOSE e \in 1..BitsMax(Len(n)) :
    /\ NMenor(EntreDosALa(n, e), DosALa53)
    /\ ~NMenor(EntreDosALa(n, e - 1), DosALa53)

\* q1 is n \div 2^(e - 1): its last bit decides the rounding of
\* n \div 2^e, ties to even; resto says that the number rounded is a
\* little more than n.
RedondeoPar(q1, n, resto, e) ==
  PorDosALa(
    NSuma(NCociente(q1, 2), <<>>,
          IF /\ NResto(q1, 2) = 1
             /\ \/ resto
                \/ PorDosALa(q1, e - 1) # n
                \/ NResto(NCociente(q1, 2), 2) = 1
          THEN 1 ELSE 0),
    e)

\* The binary64 nearest to a number n >= 2^53, or to a little more than n.
NRedondearCon(n, resto, e) == RedondeoPar(EntreDosALa(n, e - 1), n, resto, e)

NRedondear(n, resto) == NRedondearCon(n, resto, Exponente(n))

\* The float that holds the natural number n.
Binario64(n) == IF NMenor(n, DosALa53) THEN n ELSE NRedondear(n, FALSE)

\* float(s) for a string of digits, ".", and a leading "-": a ValueError
\* unless s is [-] digits [. digits] with at least one digit.
float_(s) ==
  LET neg  == s # <<>> /\ s[1] = "-"
      body == IF neg THEN Tail(s) ELSE s
      p    == PosPunto(body)
      ent  == IF p = 0 THEN body ELSE SubSeq(body, 1, p - 1)
      frac == IF p = 0 THEN <<>> ELSE SubSeq(body, p + 1, Len(body))
      bien == /\ \A i \in 1..Len(ent) : ent[i] \in Digitos
              /\ \A i \in 1..Len(frac) : frac[i] \in Digitos
              /\ Len(ent) + Len(frac) > 0
  IN IF ~bien THEN Err
     ELSE IF SinCerosDer(frac) = <<>>
          THEN Ok(Decimal(neg, Binario64(SinCerosIzq(ent)), <<>>))
          ELSE Ok(Decimal(neg, ent, frac))

\* int(s) for a string of digits
RECURSIVE int_(_)
int_(s) ==
  IF s = <<>> THEN 0
  ELSE 10 * int_(SubSeq(s, 1, Len(s) - 1)) + ValorDigito(s[Len(s)])

\* x / 100 for a float x that holds an integer
Entre100(x) ==
  LET d == IF Len(x.ent) >= 2 THEN x.ent
           ELSE IF Len(x.ent) = 1 THEN <<"0">> \o x.ent ELSE <<"0", "0">>
  IN Decimal(x.neg, SubSeq(d, 1, Len(d) - 2),
             SubSeq(d, Len(d) - 1, Len(d)) \o x.frac)

\* x < y for floats
MenorAbs(x, y) ==
  IF Len(x.ent) # Len(y.ent) THEN Len(x.ent) < Len(y.ent)
  ELSE IF x.ent # y.ent THEN MenorDigitos(x.ent, y.ent)
  ELSE MenorDigitos(x.frac, y.frac)

Menor(x, y) ==
  IF x.neg /\ ~y.neg THEN TRUE
  ELSE IF ~x.neg /\ y.neg THEN FALSE
  ELSE IF x.neg THEN MenorAbs(y, x) ELSE MenorAbs(x, y)

\* A variant of max() that returns the first element.
primero_(valores) == valores[1]

\* max(valores) and min(valores) of a non-empty list of floats
max_(valores) ==
  CHOOSE v \in {valores[i] : i \in 1..Len(valores)} :
    \A j \in 1..Len(valores) : ~Menor(v, valores[j])

min_(valores) ==
  CHOOSE v \in {valores[i] : i \in 1..Len(valores)} :
    \A j \in 1..Len(valores) : ~Menor(valores[j], v)

\* sum(valores) of floats that hold natural numbers: the elements from
\* index i on are added one by one to the partial sum s, and each addition
\* is rounded.
RECURSIVE sum_(_, _, _)
sum_(valores, i, s) ==
  IF i > Len(valores) THEN s
  ELSE sum_(valores, i + 1, Binario64(NSuma(s, valores[i].ent, 0)))

\* The float q / 2^k, as a decimal: d is q * 5^k after k zeros, and the
\* point stands k digits from its right.
Diadico(d, k) ==
  Decimal(FALSE, SubSeq(d, 1, Len(d) - k), SubSeq(d, Len(d) - k + 1, Len(d)))

\* The quotient q with the remainder r of a division by n, rounded to 53
\* bits, ties to even.
CocienteRedondeado(q, r, n) ==
  IF NMenor(q, DosALa53)
  THEN NSuma(q, <<>>,
             IF 2 * r > n \/ (2 * r = n /\ NResto(q, 2) = 1) THEN 1 ELSE 0)
  ELSE NRedondear(q, r # 0)

\* The quotient of t * 2^k by n has 53 bits or more.
Alcanza(t, n, k) == ~NMenor(NCociente(PorDosALa(t, k), n), DosALa52)

\* The least k >= 0 for which it has.
Escala(t, n) ==
  CHOOSE k \in 0..(53 + BitsMax(Len(Cifras(n)))) :
    Alcanza(t, n, k) /\ (k = 0 \/ ~Alcanza(t, n, k - 1))

\* The float t / n for a natural number t > 0 and a count n, the
\* quotient being taken with k more bits.
Dividido(t, n, k) ==
  Diadico([i \in 1..k |-> "0"]
            \o PorCincoALa(CocienteRedondeado(NCociente(PorDosALa(t, k), n),
                                              NResto(PorDosALa(t, k), n), n),
                           k),
          k)

\* s / n for a float s that holds a natural number and a count n > 0
truediv(s, n) ==
  IF s = <<>> THEN Decimal(FALSE, <<>>, <<>>)
  ELSE Dividido(s, n, Escala(s, n))

\* The four statistics of a non-empty list of amounts.
Estadisticas(valores) ==
  [valores_encontrados |-> valores,
   valor_maximo |-> max_(valores),
   valor_minimo |-> min_(valores),
   promedio_valores |-> truediv(sum_(valores, 1, <<>>), Len(valores))]

(***************************************************************************)
(* ESSA family: the regular expressions of src/ESSA/data_extractor.py.     *)
(***************************************************************************)
\* The patterns of the ESSA extractor, each under the name of its variable.
essa_patron ==
  [
    \* line 50: patron_factura = r'FACTURA\s+ELECTRÓNICA\s+DE\s+VENTA\s+(\w+)'
    factura |->
        Patron(Frase(<<"F", "A", "C", "T", "U", "R", "A">>) \o S1
      \o Frase(<<"E", "L", "E", "C", "T", "R", "Ó", "N", "I", "C", "A">>)
      \o S1 \o Frase(<<"D", "E">>) \o S1 \o Frase(<<"V", "E", "N", "T", "A">>)
      \o S1 \o Cap(1, Mas(Palabra)), 1),

    \* line 56: patron_cufe = r'CUFE:\s*([a-f0-9]+)', re.IGNORECASE
    cufe |->
        Patron(FraseI(<<"C", "U", "F", "E", ":">>) \o S0
      \o Cap(1, Mas(Digitos \cup {"A", "B", "C", "D", "E", "F", "a", "b", "c", "d", "e", "f"})), 1),

    \* line 62: patron_resolucion = r'Resolución\s+DIAN:?\s*Autorización\s+número\s+([\d]+)\s+DEL\s+([\d-]+)', re.IGNORECASE
    resolucion |->
        Patron(FraseI(<<"R", "e", "s", "o", "l", "u", "c", "i", "ó", "n">>)
      \o S1 \o FraseI(<<"D", "I", "A", "N">>) \o Opc({":"}) \o S0
      \o FraseI(<<"A", "u", "t", "o", "r", "i", "z", "a", "c", "i", "ó", "n">>)
      \o S1 \o FraseI(<<"n", "ú", "m", "e", "r", "o">>) \o S1
      \o Cap(1, Mas(Digitos)) \o S1 \o FraseI(<<"D", "E", "L">>) \o S1
      \o Cap(2, Mas(Digitos \cup {"-"})), 2),

    \* line 69: patron_rango = r'RANGO\s+(\d+)\s+HASTA\s+LA\s+(\d+)'
    rango |->
        Patron(Frase(<<"R", "A", "N", "G", "O">>) \o S1
      \o Cap(1, Mas(Digitos)) \o S1 \o Frase(<<"H", "A", "S", "T", "A">>)
      \o S1 \o Frase(<<"L", "A">>) \o S1 \o Cap(2, Mas(Digitos)), 2),

    \* line 76: patron_total = r'TOTAL\s+A\s+PAGAR\s+[\$]?\s*([\d,]+)', re.IGNORECASE
    total |->
        Patron(FraseI(<<"T", "O", "T", "A", "L">>) \o S1 \o FraseI(<<"A">>)
      \o S1 \o FraseI(<<"P", "A", "G", "A", "R">>) \o S1 \o Opc({"$"}) \o S0
      \o Cap(1, Mas(Digitos \cup {","})), 1),

    \* line 89: patron_nombre = r'Nombre:\s*([^\n]+(?:S\.A\.|E\.S\.P\.))'
    nombre |->
        Patron(Frase(<<"N", "o", "m", "b", "r", "e", ":">>) \o S0
      \o Cap(1, R({"\n"}, TRUE, 1, -1, FALSE)
      \o Alt(<<Frase(<<"S", ".", "A", ".">>), Frase(<<"E", ".", "S", ".", "P", ".">>)>>)), 1),

    \* line 95: patron_nit = r'NIT:\s*([\d-]+)'
    nit |->
        Patron(Frase(<<"N", "I", "T", ":">>) \o S0
      \o Cap(1, Mas(Digitos \cup {"-"})), 1),

    \* line 101: patron_direccion = r'Dirección:\s*([^\n]+?)(?:Municipio|Teléfono|\n)'
    direccion |->
        Patron(Frase(<<"D", "i", "r", "e", "c", "c", "i", "ó", "n", ":">>)
      \o S0 \o Cap(1, R({"\n"}, TRUE, 1, -1, TRUE))
      \o Alt(<<Frase(<<"M", "u", "n", "i", "c", "i", "p", "i", "o">>), Frase(<<"T", "e", "l", "é", "f", "o", "n", "o">>), Frase(<<"\n">>)>>), 1),

    \* line 107: patron_municipio = r'Municipio:\s*([^\s]+)'
    municipio |->
        Patron(Frase(<<"M", "u", "n", "i", "c", "i", "p", "i", "o", ":">>)
      \o S0 \o Cap(1, R(Espacios, TRUE, 1, -1, FALSE)), 1),

    \* line 113: patron_telefono = r'Teléfono\s*([\d]+)'
    telefono |->
        Patron(Frase(<<"T", "e", "l", "é", "f", "o", "n", "o">>) \o S0
      \o Cap(1, Mas(Digitos)), 1),

    \* line 125: patron_niu = r'Código\s+Cuenta-NIU\s*([\d]+)', re.IGNORECASE
    niu |->
        Patron(FraseI(<<"C", "ó", "d", "i", "g", "o">>) \o S1
      \o FraseI(<<"C", "u", "e", "n", "t", "a", "-", "N", "I", "U">>) \o S0
      \o Cap(1, Mas(Digitos)), 1),

    \* line 132: patron_niu_alt = r'CUENTA-NIU\s*([\d]+)'
    niu_alt |->
        Patron(Frase(<<"C", "U", "E", "N", "T", "A", "-", "N", "I", "U">>)
      \o S0 \o Cap(1, Mas(Digitos)), 1),

    \* line 144: patron_periodo = r'Periodo\s+Facturado\s+Desde:\s*([\d-]+)\s+Hasta:\s*([\d-]+)', re.IGNORECASE
    periodo |->
        Patron(FraseI(<<"P", "e", "r", "i", "o", "d", "o">>) \o S1
      \o FraseI(<<"F", "a", "c", "t", "u", "r", "a", "d", "o">>) \o S1
      \o FraseI(<<"D", "e", "s", "d", "e", ":">>) \o S0
      \o Cap(1, Mas(Digitos \cup {"-"})) \o S1
      \o FraseI(<<"H", "a", "s", "t", "a", ":">>) \o S0
      \o Cap(2, Mas(Digitos \cup {"-"})), 2),

    \* line 151: patron_generacion = r'Fecha\s+y\s+Hora\s+Generación:\s*([\d-]+\s+[\d:]+(?:-[\d:]+)?)', re.IGNORECASE
    generacion |->
        Patron(FraseI(<<"F", "e", "c", "h", "a">>) \o S1 \o FraseI(<<"y">>)
      \o S1 \o FraseI(<<"H", "o", "r", "a">>) \o S1
      \o FraseI(<<"G", "e", "n", "e", "r", "a", "c", "i", "ó", "n", ":">>)
      \o S0 \o Cap(1, Mas(Digitos \cup {"-"}) \o S1 \o Mas(Digitos \cup {":"})
      \o Veces(FraseI(<<"-">>) \o Mas(Digitos \cup {":"}), 0, 1)), 1),

    \* line 157: patron_vencimiento = r'Fecha\s+de\s+Vencimiento:\s*([\d-]+)', re.IGNORECASE
    vencimiento |->
        Patron(FraseI(<<"F", "e", "c", "h", "a">>) \o S1
      \o FraseI(<<"d", "e">>) \o S1
      \o FraseI(<<"V", "e", "n", "c", "i", "m", "i", "e", "n", "t", "o", ":">>)
      \o S0 \o Cap(1, Mas(Digitos \cup {"-"})), 1),

    \* line 163: patron_forma_pago = r'Forma\s+de\s+Pago:\s*(\w+)', re.IGNORECASE
    forma_pago |->
        Patron(FraseI(<<"F", "o", "r", "m", "a">>) \o S1
      \o FraseI(<<"d", "e">>) \o S1 \o FraseI(<<"P", "a", "g", "o", ":">>)
      \o S0 \o Cap(1, Mas(Palabra)), 1),

    \* line 176: patron_tabla = r'Nro\.\s+CÓDIGO\s+CONCEPTO\s+UNIDAD\s+VR\\UNIDAD\s+CANTIDAD\s+IVA\s+SALDO\s+VALOR\s+MES(.*?)(?:Valor\s+Reclamacion|TOTAL\s+A\s+PAGAR)', re.IGNORECASE | re.DOTALL
    tabla |->
        Patron(FraseI(<<"N", "r", "o", ".">>) \o S1
      \o FraseI(<<"C", "Ó", "D", "I", "G", "O">>) \o S1
      \o FraseI(<<"C", "O", "N", "C", "E", "P", "T", "O">>) \o S1
      \o FraseI(<<"U", "N", "I", "D", "A", "D">>) \o S1
      \o FraseI(<<"V", "R", "\\", "U", "N", "I", "D", "A", "D">>) \o S1
      \o FraseI(<<"C", "A", "N", "T", "I", "D", "A", "D">>) \o S1
      \o FraseI(<<"I", "V", "A">>) \o S1
      \o FraseI(<<"S", "A", "L", "D", "O">>) \o S1
      \o FraseI(<<"V", "A", "L", "O", "R">>) \o S1
      \o FraseI(<<"M", "E", "S">>) \o Cap(1, R({}, TRUE, 0, -1, TRUE))
      \o Alt(<<FraseI(<<"V", "a", "l", "o", "r">>) \o S1
      \o FraseI(<<"R", "e", "c", "l", "a", "m", "a", "c", "i", "o", "n">>), FraseI(<<"T", "O", "T", "A", "L">>)
      \o S1 \o FraseI(<<"A">>) \o S1
      \o FraseI(<<"P", "A", "G", "A", "R">>)>>), 1),

    \* line 194: patron_linea = r'^(\d+)\s+(\d+)\s+([A-Z\s]+?)\s+(Peso|KWH|K\d+)\s+([\d,\.]+)\s+([\d,\.]+)\s+(\d+)\s+(\d+)\s+([\d,]+)$'
    linea |->
        Patron(Bol \o Cap(1, Mas(Digitos)) \o S1 \o Cap(2, Mas(Digitos)) \o S1
      \o Cap(3, MasL(Mayusculas \cup Espacios)) \o S1
      \o CapAlt(4, <<Frase(<<"P", "e", "s", "o">>), Frase(<<"K", "W", "H">>), Frase(<<"K">>)
      \o Mas(Digitos)>>) \o S1 \o Cap(5, Mas(Digitos \cup {",", "."})) \o S1
      \o Cap(6, Mas(Digitos \cup {",", "."})) \o S1 \o Cap(7, Mas(Digitos))
      \o S1 \o Cap(8, Mas(Digitos)) \o S1 \o Cap(9, Mas(Digitos \cup {","}))
      \o Eol, 9),

    \* line 214: patron_concepto_alt = r'(\d+)\s+(\d{3})\s+([A-Z][A-Z\s]+?)\s+(Peso|KWH|K\d+)\s+([\d,\.]+)\s+([\d,\.]+)\s+(\d+)\s+(\d+)\s+([\d,]+)'
    concepto_alt |->
        Patron(Cap(1, Mas(Digitos)) \o S1
      \o Cap(2, R(Digitos, FALSE, 3, 3, FALSE)) \o S1
      \o Cap(3, R(Mayusculas, FALSE, 1, 1, FALSE)
      \o MasL(Mayusculas \cup Espacios)) \o S1
      \o CapAlt(4, <<Frase(<<"P", "e", "s", "o">>), Frase(<<"K", "W", "H">>), Frase(<<"K">>)
      \o Mas(Digitos)>>) \o S1 \o Cap(5, Mas(Digitos \cup {",", "."})) \o S1
      \o Cap(6, Mas(Digitos \cup {",", "."})) \o S1 \o Cap(7, Mas(Digitos))
      \o S1 \o Cap(8, Mas(Digitos)) \o S1
      \o Cap(9, Mas(Digitos \cup {","})), 9),

    \* line 280: patron_reclamacion = r'Valor\s+Reclamacion:\s*([\d,]+)', re.IGNORECASE
    reclamacion |->
        Patron(FraseI(<<"V", "a", "l", "o", "r">>) \o S1
      \o FraseI(<<"R", "e", "c", "l", "a", "m", "a", "c", "i", "o", "n", ":">>)
      \o S0 \o Cap(1, Mas(Digitos \cup {","})), 1),

    \* line 286: patron_congelado = r'Valor\s+Congelado:\s*([\d,]+)', re.IGNORECASE
    congelado |->
        Patron(FraseI(<<"V", "a", "l", "o", "r">>) \o S1
      \o FraseI(<<"C", "o", "n", "g", "e", "l", "a", "d", "o", ":">>) \o S0
      \o Cap(1, Mas(Digitos \cup {","})), 1),

    \* line 292: patron_lineas = r'Total\s+Lineas:\s*(\d+)', re.IGNORECASE
    lineas |->
        Patron(FraseI(<<"T", "o", "t", "a", "l">>) \o S1
      \o FraseI(<<"L", "i", "n", "e", "a", "s", ":">>) \o S0
      \o Cap(1, Mas(Digitos)), 1),

    \* line 304: patron_sistema = r'Sistema:\s*([^\s]+)'
    sistema |->
        Patron(Frase(<<"S", "i", "s", "t", "e", "m", "a", ":">>) \o S0
      \o Cap(1, R(Espacios, TRUE, 1, -1, FALSE)), 1),

    \* line 310: patron_actsis = r'ACTSIS\s+LTDA,\s+NIT:\s*([\d-]+)'
    actsis |->
        Patron(Frase(<<"A", "C", "T", "S", "I", "S">>) \o S1
      \o Frase(<<"L", "T", "D", "A", ",">>) \o S1
      \o Frase(<<"N", "I", "T", ":">>) \o S0
      \o Cap(1, Mas(Digitos \cup {"-"})), 1),

    \* line 316: patron_email = r'(\w+@\w+\.\w+)'
    email |->
        Patron(Cap(1, Mas(Palabra) \o Frase(<<"@">>) \o Mas(Palabra)
      \o Frase(<<".">>) \o Mas(Palabra)), 1),

    \* line 328: patron_cuenta = r'cuenta\s+corriente\s+número\s*([\d-]+)\s+del\s+Banco\s+(\w+)', re.IGNORECASE
    cuenta |->
        Patron(FraseI(<<"c", "u", "e", "n", "t", "a">>) \o S1
      \o FraseI(<<"c", "o", "r", "r", "i", "e", "n", "t", "e">>) \o S1
      \o FraseI(<<"n", "ú", "m", "e", "r", "o">>) \o S0
      \o Cap(1, Mas(Digitos \cup {"-"})) \o S1 \o FraseI(<<"d", "e", "l">>)
      \o S1 \o FraseI(<<"B", "a", "n", "c", "o">>) \o S1
      \o Cap(2, Mas(Palabra)), 2),

    \* line 335: patron_correos = r'recaudos@essa\.com\.co|linderman\.rodriguez@essa\.com\.co'
    correos |->
        Patron(Alt(<<Frase(<<"r", "e", "c", "a", "u", "d", "o", "s", "@", "e", "s", "s", "a", ".", "c", "o", "m", ".", "c", "o">>), Frase(<<"l", "i", "n", "d", "e", "r", "m", "a", "n", ".", "r", "o", "d", "r", "i", "g", "u", "e", "z", "@", "e", "s", "s", "a", ".", "c", "o", "m", ".", "c", "o">>)>>), 0),

    \* line 341: patron_tel_contacto = r'teléfono:\s*([\d]+)\s+extensión\s*([\d]+)', re.IGNORECASE
    tel_contacto |->
        Patron(FraseI(<<"t", "e", "l", "é", "f", "o", "n", "o", ":">>) \o S0
      \o Cap(1, Mas(Digitos)) \o S1
      \o FraseI(<<"e", "x", "t", "e", "n", "s", "i", "ó", "n">>) \o S0
      \o Cap(2, Mas(Digitos)), 2),

    \* line 354: patron_valores = r'[\$]?\s*([\d]{7,}[\d,]*)'
    valores |->
        Patron(Opc({"$"}) \o S0 \o Cap(1, R(Digitos, FALSE, 7, -1, FALSE)
      \o Ast(Digitos \cup {","})), 1),

    \* line 371: patron_codigo = r'\((\d{3,})\)([^\(]+?)(?=\(|$)'
    codigo |->
        Patron(Frase(<<"(">>) \o Cap(1, R(Digitos, FALSE, 3, -1, FALSE))
      \o Frase(<<")">>) \o Cap(2, R({"("}, TRUE, 1, -1, TRUE))
      \o Adelante(<<Frase(<<"(">>), Eol>>), 2),

    \* line 378: patron_codigo_final = r'\(415\)(\d+)\(8020\)(\d+)\(3900\)(\d+)\(96\)(\d+)'
    codigo_final |->
        Patron(Frase(<<"(", "4", "1", "5", ")">>) \o Cap(1, Mas(Digitos))
      \o Frase(<<"(", "8", "0", "2", "0", ")">>) \o Cap(2, Mas(Digitos))
      \o Frase(<<"(", "3", "9", "0", "0", ")">>) \o Cap(3, Mas(Digitos))
      \o Frase(<<"(", "9", "6", ")">>) \o Cap(4, Mas(Digitos)), 4)
  ]

(***************************************************************************)
(* ESSA family: the section extractors.                                    *)
(***************************************************************************)
\* Variant of extraer_informacion_general: the first total found is taken.
essa_informacion_general_primer_total(texto) ==
  Reunir(<<
    SiCoincide(re_search(essa_patron.factura, texto), LAMBDA match :
      Ok([numero_factura |-> group(texto, match, 1)])),
    SiCoincide(re_search(essa_patron.cufe, texto), LAMBDA match :
      Ok([cufe |-> group(texto, match, 1)])),
    SiCoincide(re_search(essa_patron.resolucion, texto), LAMBDA match :
      Ok([resolucion_dian |-> group(texto, match, 1),
          fecha_resolucion |-> group(texto, match, 2)])),
    SiCoincide(re_search(essa_patron.rango, texto), LAMBDA match :
      Ok([rango_desde |-> group(texto, match, 1),
          rango_hasta |-> group(texto, match, 2)])),
    SiHay(re_findall(essa_patron.total, texto), LAMBDA matches :
      Flotante("total_pagar", float_(Quitar(matches[1], ",")))) >>)

essa_extraer_informacion_general(texto) ==
  Reunir(<<
    SiCoincide(re_search(essa_patron.factura, texto), LAMBDA match :
      Ok([numero_factura |-> group(texto, match, 1)])),
    SiCoincide(re_search(essa_patron.cufe, texto), LAMBDA match :
      Ok([cufe |-> group(texto, match, 1)])),
    SiCoincide(re_search(essa_patron.resolucion, texto), LAMBDA match :
      Ok([resolucion_dian |-> group(texto, match, 1),
          fecha_resolucion |-> group(texto, match, 2)])),
    SiCoincide(re_search(essa_patron.rango, texto), LAMBDA match :
      Ok([rango_desde |-> group(texto, match, 1),
          rango_hasta |-> group(texto, match, 2)])),
    SiHay(re_findall(essa_patron.total, texto), LAMBDA matches :
      Flotante("total_pagar", float_(Quitar(matches[Len(matches)], ",")))) >>)

essa_extraer_datos_comercializador(texto) ==
  Reunir(<<
    SiCoincide(re_search(essa_patron.nombre, texto), LAMBDA match :
      Ok([nombre |-> strip(group(texto, match, 1))])),
    SiCoincide(re_search(essa_patron.nit, texto), LAMBDA match :
      Ok([nit |-> group(texto, match, 1)])),
    SiCoincide(re_search(essa_patron.direccion, texto), LAMBDA match :
      Ok([direccion |-> strip(group(texto, match, 1))])),
    SiCoincide(re_search(essa_patron.municipio, texto), LAMBDA match :
      Ok([municipio |-> group(texto, match, 1)])),
    SiCoincide(re_search(essa_patron.telefono, texto), LAMBDA match :
      Ok([telefono |-> group(texto, match, 1)])) >>)

\* Variant of extraer_datos_cliente: the alternate format is tried first.
essa_datos_cliente_alterno_primero(texto) ==
  Reunir(<<
    SiCoincideSiNo(re_search(essa_patron.niu_alt, texto),
      LAMBDA match : Ok([codigo_cuenta_niu |-> group(texto, match, 1)]),
      SiCoincide(re_search(essa_patron.niu, texto), LAMBDA match :
        Ok([codigo_cuenta_niu |-> group(texto, match, 1)]))) >>)

essa_extraer_datos_cliente(texto) ==
  Reunir(<<
    SiCoincideSiNo(re_search(essa_patron.niu, texto),
      LAMBDA match : Ok([codigo_cuenta_niu |-> group(texto, match, 1)]),
      \* if 'codigo_cuenta_niu' not in datos_cliente:
      SiCoincide(re_search(essa_patron.niu_alt, texto), LAMBDA match :
        Ok([codigo_cuenta_niu |-> group(texto, match, 1)]))) >>)

essa_extraer_periodo_facturacion(texto) ==
  Reunir(<<
    SiCoincide(re_search(essa_patron.periodo, texto), LAMBDA match :
      Ok([fecha_desde |-> group(texto, match, 1),
          fecha_hasta |-> group(texto, match, 2)])),
    SiCoincide(re_search(essa_patron.generacion, texto), LAMBDA match :
      Ok([fecha_hora_generacion |-> group(texto, match, 1)])),
    SiCoincide(re_search(essa_patron.vencimiento, texto), LAMBDA match :
      Ok([fecha_vencimiento |-> group(texto, match, 1)])),
    SiCoincide(re_search(essa_patron.forma_pago, texto), LAMBDA match :
      Ok([forma_pago |-> group(texto, match, 1)])) >>)

\* One LineItem of the ESSA charge table from its number and the captured
\* texts; a capture that float() rejects raises.
essa_concepto(numero, codigo, concepto, unidad, g5, g6, g7, g8, g9) ==
  Convertidos(<<float_(Quitar(g5, ",")), float_(Quitar(g6, ",")), float_(g7),
                float_(g8), float_(Quitar(g9, ","))>>,
              LAMBDA f :
                [numero |-> numero, codigo |-> codigo, concepto |-> concepto,
                 unidad |-> unidad, valor_unidad |-> f[1], cantidad |-> f[2],
                 iva |-> f[3], saldo |-> f[4], valor_mes |-> f[5]])

\* One round of the loop over the lines of the table: the LineItem of a
\* line that matches, nothing for an empty line or one that does not.
essa_linea_tabla(linea) ==
  IF linea = <<>> THEN Ok(<<>>)
  ELSE SiCoincideSiNo(re_match(essa_patron.linea, linea),
         LAMBDA match :
           Uno(essa_concepto(int_(group(linea, match, 1)),
                             group(linea, match, 2),
                             strip(group(linea, match, 3)),
                             group(linea, match, 4), group(linea, match, 5),
                             group(linea, match, 6), group(linea, match, 7),
                             group(linea, match, 8), group(linea, match, 9))),
         Ok(<<>>))

\* for linea in lineas: linea = linea.strip() ...
essa_lineas_tabla(lineas) ==
  Concatenar([i \in DOMAIN lineas |-> essa_linea_tabla(strip(lineas[i]))])

\* Tier a: the lines between the column header and the terminating phrase.
\* corrio tells whether the tier scanned the text.
essa_tier_a(texto, conceptos) ==
  Agregados(conceptos,
    SiCoincideSiNo(re_search(essa_patron.tabla, texto),
      LAMBDA match_tabla :
        essa_lineas_tabla(split_lineas(strip(group(texto, match_tabla, 1)))),
      Ok(<<>>)))

\* for i, match in enumerate(matches, 1): conceptos.append(...)
essa_conceptos_alt(matches) ==
  Concatenar([i \in DOMAIN matches |->
    Uno(essa_concepto(int_(matches[i][1]), matches[i][2],
                      strip(matches[i][3]), matches[i][4], matches[i][5],
                      matches[i][6], matches[i][7], matches[i][8],
                      matches[i][9]))])

\* A variant of tier b that scans the text whatever tier a left.
essa_tier_b_sin_condicion(texto, conceptos) ==
  Agregados(conceptos,
    essa_conceptos_alt(re_findall(essa_patron.concepto_alt, texto)))

\* Tier b: every 9-field match anywhere in the text, if tier a left none.
essa_tier_b(texto, conceptos) ==
  IF conceptos # <<>> THEN NoCorrio(conceptos)
  ELSE Agregados(conceptos,
         essa_conceptos_alt(re_findall(essa_patron.concepto_alt, texto)))

\* (codigo, nombre, unidad, valor_unit, cantidad, iva, saldo, valor_mes)
essa_conceptos_conocidos ==
  << <<<<"6", "7", "2">>, <<"C", "P", "R", "O", "G">>, <<"P", "e", "s", "o">>,
       <<"7", "9", ",", "0", "5", "9", ",", "5", "1", "2", ".", "0", "0", "0", "0">>,
       <<"1">>, <<"0">>, <<"0">>,
       <<"7", "9", ",", "0", "5", "9", ",", "5", "1", "2">>>>,
     <<<<"3", "8", "4">>,
       <<"P", "E", "A", "J", "E", " ", "A", "C", "T", "I", "V", "A">>,
       <<"K", "W", "H">>, <<"1", "1", ".", "5", "3", "7", "7">>,
       <<"3", ",", "6", "3", "8", ",", "0", "0", "2">>, <<"0">>, <<"0">>,
       <<"4", "1", ",", "9", "7", "4", ",", "0", "2", "0">>>>,
     <<<<"6", "3", "6">>,
       <<"P", "E", "A", "J", "E", " ", "I", "N", "D", "U", "C", "T", "I", "V",
         "A", " ", "F", "A">>,
       <<"K", "5">>,
       <<"7", ",", "3", "4", "2", ",", "2", "8", "2", ".", "0", "0", "0", "0">>,
       <<"1">>, <<"0">>, <<"0">>,
       <<"7", ",", "3", "4", "2", ",", "2", "8", "2">>>>,
     <<<<"4", "9", "9">>,
       <<"A", "D", "D", " ", "C", "E", "N", "T", "R", "O">>,
       <<"P", "e", "s", "o">>,
       <<"3", "9", "1", ",", "2", "5", "0", ".", "0", "0", "0", "0">>,
       <<"1">>, <<"0">>, <<"0">>, <<"3", "9", "1", ",", "2", "5", "0">>>> >>

\* rf'{codigo}\s+{nombre}.*?{unidad}\s+([\d,\.]+)\s+([\d,\.]+)\s+(\d+)\s+(\d+)\s+([\d,]+)'
essa_patron_especifico(codigo, nombre, unidad) ==
  Patron(Frase(codigo) \o S1 \o Frase(nombre) \o R({"\n"}, TRUE, 0, -1, TRUE)
    \o Frase(unidad) \o S1 \o Cap(1, Mas(Digitos \cup {",", "."})) \o S1
    \o Cap(2, Mas(Digitos \cup {",", "."})) \o S1 \o Cap(3, Mas(Digitos))
    \o S1 \o Cap(4, Mas(Digitos)) \o S1 \o Cap(5, Mas(Digitos \cup {","})), 5)

\* The i-th known LineItem: its amounts are read from the text when the
\* specific pattern matches, and are the predefined ones otherwise.
essa_concepto_conocido(texto, i) ==
  LET k == essa_conceptos_conocidos[i]
  IN SiCoincideSiNo(
       re_search(essa_patron_especifico(k[1], k[2], k[3]), texto),
       LAMBDA match :
         essa_concepto(i, k[1], k[2], k[3], group(texto, match, 1),
                       group(texto, match, 2), group(texto, match, 3),
                       group(texto, match, 4), group(texto, match, 5)),
       essa_concepto(i, k[1], k[2], k[3], k[4], k[5], k[6], k[7], k[8]))

\* Variant of tier c: a known LineItem is added only when the text holds
\* its line.
essa_tier_c_solo_hallados(texto, conceptos) ==
  IF conceptos # <<>> THEN NoCorrio(conceptos)
  ELSE Agregados(conceptos,
         Concatenar([i \in DOMAIN essa_conceptos_conocidos |->
                       IF re_search(essa_patron_especifico(
                                      essa_conceptos_conocidos[i][1],
                                      essa_conceptos_conocidos[i][2],
                                      essa_conceptos_conocidos[i][3]),
                                    texto).ok
                       THEN Uno(essa_concepto_conocido(texto, i))
                       ELSE Ok(<<>>)]))

\* Tier c: the known LineItems, if tiers a and b left none.
essa_tier_c(texto, conceptos) ==
  IF conceptos # <<>> THEN NoCorrio(conceptos)
  ELSE Agregados(conceptos,
         Concatenar([i \in DOMAIN essa_conceptos_conocidos |->
                       Uno(essa_concepto_conocido(texto, i))]))

essa_extraer_conceptos_facturados(texto) ==
  Devuelto(Luego(Luego(essa_tier_a(texto, <<>>),
                       LAMBDA conceptos : essa_tier_b(texto, conceptos)),
                 LAMBDA conceptos : essa_tier_c(texto, conceptos)))

essa_extraer_informacion_pago(texto) ==
  Reunir(<<
    SiCoincide(re_search(essa_patron.reclamacion, texto), LAMBDA match :
      Flotante("valor_reclamacion",
               float_(Quitar(group(texto, match, 1), ",")))),
    SiCoincide(re_search(essa_patron.congelado, texto), LAMBDA match :
      Flotante("valor_congelado",
               float_(Quitar(group(texto, match, 1), ",")))),
    SiCoincide(re_search(essa_patron.lineas, texto), LAMBDA match :
      Ok([total_lineas |-> int_(group(texto, match, 1))])) >>)

\* list(set(matches)): the order of the list is that of a Python set, so
\* the value is kept as the set of its elements.
ConjuntoDe(matches) == {matches[i] : i \in 1..Len(matches)}

essa_extraer_datos_tecnicos(texto) ==
  Reunir(<<
    SiCoincide(re_search(essa_patron.sistema, texto), LAMBDA match :
      Ok([sistema |-> group(texto, match, 1)])),
    SiCoincide(re_search(essa_patron.actsis, texto), LAMBDA match :
      Ok([actsis_nit |-> group(texto, match, 1)])),
    SiHay(re_findall(essa_patron.email, texto), LAMBDA matches :
      Ok([emails |-> ConjuntoDe(matches)])) >>)

essa_extraer_informacion_recaudo(texto) ==
  Reunir(<<
    SiCoincide(re_search(essa_patron.cuenta, texto), LAMBDA match :
      Ok([numero_cuenta |-> group(texto, match, 1),
          banco |-> group(texto, match, 2)])),
    SiHay(re_findall(essa_patron.correos, texto), LAMBDA matches :
      Ok([correos_recaudo |-> ConjuntoDe(matches)])),
    SiCoincide(re_search(essa_patron.tel_contacto, texto), LAMBDA match :
      Ok([telefono_contacto |-> group(texto, match, 1),
          extension |-> group(texto, match, 2)])) >>)

\* Variant of extraer_totales: a token needs six digits, not seven.
essa_totales_desde_seis_digitos(texto) ==
  SiHay(re_findall(Patron(Opc({"$"}) \o S0
                          \o Cap(1, R(Digitos, FALSE, 6, -1, FALSE)
                                    \o Ast(Digitos \cup {","})), 1), texto),
        LAMBDA matches :
    Convertidos([i \in DOMAIN matches |-> float_(Quitar(matches[i], ","))],
                Estadisticas))

essa_extraer_totales(texto) ==
  SiHay(re_findall(essa_patron.valores, texto), LAMBDA matches :
    Convertidos([i \in DOMAIN matches |-> float_(Quitar(matches[i], ","))],
                Estadisticas))

\* ''.join(s): the characters of s as one string
RECURSIVE Cadena(_)
Cadena(s) == IF s = <<>> THEN "" ELSE Head(s) \o Cadena(Tail(s))

\* The loop over the (prefijo, valor) pairs, from index i on.
RECURSIVE essa_codigos_paso(_, _, _)
essa_codigos_paso(codigos, matches, i) ==
  IF i > Len(matches) THEN codigos
  ELSE essa_codigos_paso(
         Poner(codigos, "codigo_" \o Cadena(matches[i][1]), strip(matches[i][2])),
         matches, i + 1)

essa_extraer_codigos_barras(texto) ==
  Reunir(<<
    Ok(essa_codigos_paso(DictVacio, re_findall(essa_patron.codigo, texto), 1)),
    SiCoincide(re_search(essa_patron.codigo_final, texto), LAMBDA match :
      Ok([codigo_415 |-> group(texto, match, 1),
          codigo_8020 |-> group(texto, match, 2),
          codigo_3900 |-> group(texto, match, 3),
          codigo_96 |-> group(texto, match, 4)])) >>)

(***************************************************************************)
(* Air-e family: the regular expressions of src/air-e/data_extractor.py.   *)
(***************************************************************************)
\* The patterns of the Air-e extractor, each under the name of its variable.
aire_patron ==
  [
    \* line 49: patron_nic = r'NIC:\s*(\d+)'
    nic |->
        Patron(Frase(<<"N", "I", "C", ":">>) \o S0 \o Cap(1, Mas(Digitos)), 1),

    \* line 55: patron_doc = r'Documento\s+Equivalente:\s*(\d+)'
    doc |->
        Patron(Frase(<<"D", "o", "c", "u", "m", "e", "n", "t", "o">>) \o S1
      \o Frase(<<"E", "q", "u", "i", "v", "a", "l", "e", "n", "t", "e", ":">>)
      \o S0 \o Cap(1, Mas(Digitos)), 1),

    \* line 61: patron_id_cobros = r'ID\s+de\s+Cobros:\s*(\d+)'
    id_cobros |->
        Patron(Frase(<<"I", "D">>) \o S1 \o Frase(<<"d", "e">>) \o S1
      \o Frase(<<"C", "o", "b", "r", "o", "s", ":">>) \o S0
      \o Cap(1, Mas(Digitos)), 1),

    \* line 67: patron_total = r'TOTAL\s+A\s+PAGAR\s+\$?([\d,\.]+)', re.IGNORECASE
    total |->
        Patron(FraseI(<<"T", "O", "T", "A", "L">>) \o S1 \o FraseI(<<"A">>)
      \o S1 \o FraseI(<<"P", "A", "G", "A", "R">>) \o S1 \o Opc({"$"})
      \o Cap(1, Mas(Digitos \cup {",", "."})), 1),

    \* line 75: patron_periodo_fact = r'Periodo\s+facturado\s+al\s+([\d/]+)'
    periodo_fact |->
        Patron(Frase(<<"P", "e", "r", "i", "o", "d", "o">>) \o S1
      \o Frase(<<"f", "a", "c", "t", "u", "r", "a", "d", "o">>) \o S1
      \o Frase(<<"a", "l">>) \o S1 \o Cap(1, Mas(Digitos \cup {"/"})), 1),

    \* line 81: patron_uso = r'Peaje\s+Nivel\s+(\d+)'
    uso_general |->
        Patron(Frase(<<"P", "e", "a", "j", "e">>) \o S1
      \o Frase(<<"N", "i", "v", "e", "l">>) \o S1 \o Cap(1, Mas(Digitos)), 1),

    \* line 93: patron_cliente = r'Cliente:\s*([^\n]+)'
    cliente |->
        Patron(Frase(<<"C", "l", "i", "e", "n", "t", "e", ":">>) \o S0
      \o Cap(1, R({"\n"}, TRUE, 1, -1, FALSE)), 1),

    \* line 100: patron_cliente_alt = r'GENERADORA\s+Y\s+COMERCIALIZADORA\s+DE\s+ENERGIA\s+DEL\s+CARIBE'
    cliente_alt |->
        Patron(Frase(<<"G", "E", "N", "E", "R", "A", "D", "O", "R", "A">>)
      \o S1 \o Frase(<<"Y">>) \o S1
      \o Frase(<<"C", "O", "M", "E", "R", "C", "I", "A", "L", "I", "Z", "A", "D", "O", "R", "A">>)
      \o S1 \o Frase(<<"D", "E">>) \o S1
      \o Frase(<<"E", "N", "E", "R", "G", "I", "A">>) \o S1
      \o Frase(<<"D", "E", "L">>) \o S1
      \o Frase(<<"C", "A", "R", "I", "B", "E">>), 0),

    \* line 106: patron_nit = r'NIT\s+o\s+C\.C:\s*([\d-]+)'
    nit_cliente |->
        Patron(Frase(<<"N", "I", "T">>) \o S1 \o Frase(<<"o">>) \o S1
      \o Frase(<<"C", ".", "C", ":">>) \o S0
      \o Cap(1, Mas(Digitos \cup {"-"})), 1),

    \* line 112: patron_direccion = r'Dirección\s+del\s+envío:\s*([^\n]+)'
    direccion |->
        Patron(Frase(<<"D", "i", "r", "e", "c", "c", "i", "ó", "n">>) \o S1
      \o Frase(<<"d", "e", "l">>) \o S1
      \o Frase(<<"e", "n", "v", "í", "o", ":">>) \o S0
      \o Cap(1, R({"\n"}, TRUE, 1, -1, FALSE)), 1),

    \* line 118: patron_planta = r'Dirección\s+de\s+planta:\s*([^\n]+)'
    planta |->
        Patron(Frase(<<"D", "i", "r", "e", "c", "c", "i", "ó", "n">>) \o S1
      \o Frase(<<"d", "e">>) \o S1
      \o Frase(<<"p", "l", "a", "n", "t", "a", ":">>) \o S0
      \o Cap(1, R({"\n"}, TRUE, 1, -1, FALSE)), 1),

    \* line 124: patron_municipio = r'Municipio:\s*(\w+)'
    municipio |->
        Patron(Frase(<<"M", "u", "n", "i", "c", "i", "p", "i", "o", ":">>)
      \o S0 \o Cap(1, Mas(Palabra)), 1),

    \* line 130: patron_depto = r'Departamento:\s*(\w+)'
    depto |->
        Patron(Frase(<<"D", "e", "p", "a", "r", "t", "a", "m", "e", "n", "t", "o", ":">>)
      \o S0 \o Cap(1, Mas(Palabra)), 1),

    \* line 136: patron_contrato = r'Contrato\s+No:\s*([^\n]+)'
    contrato |->
        Patron(Frase(<<"C", "o", "n", "t", "r", "a", "t", "o">>) \o S1
      \o Frase(<<"N", "o", ":">>) \o S0
      \o Cap(1, R({"\n"}, TRUE, 1, -1, FALSE)), 1),

    \* line 142: patron_uso = r'Uso:\s*Peaje\s+Nivel\s+(\d+)'
    uso_cliente |->
        Patron(Frase(<<"U", "s", "o", ":">>) \o S0
      \o Frase(<<"P", "e", "a", "j", "e">>) \o S1
      \o Frase(<<"N", "i", "v", "e", "l">>) \o S1 \o Cap(1, Mas(Digitos)), 1),

    \* line 148: patron_tension = r'Nivel\s+de\s+tensión:\s*([^\n]+)'
    tension |->
        Patron(Frase(<<"N", "i", "v", "e", "l">>) \o S1 \o Frase(<<"d", "e">>)
      \o S1 \o Frase(<<"t", "e", "n", "s", "i", "ó", "n", ":">>) \o S0
      \o Cap(1, R({"\n"}, TRUE, 1, -1, FALSE)), 1),

    \* line 160: patron_operador = r'Información\s+del\s+Operador\s+de\s+Red\s+AIR-E\s+S\.A\.S\s+ESP'
    operador |->
        Patron(Frase(<<"I", "n", "f", "o", "r", "m", "a", "c", "i", "ó", "n">>)
      \o S1 \o Frase(<<"d", "e", "l">>) \o S1
      \o Frase(<<"O", "p", "e", "r", "a", "d", "o", "r">>) \o S1
      \o Frase(<<"d", "e">>) \o S1 \o Frase(<<"R", "e", "d">>) \o S1
      \o Frase(<<"A", "I", "R", "-", "E">>) \o S1
      \o Frase(<<"S", ".", "A", ".", "S">>) \o S1
      \o Frase(<<"E", "S", "P">>), 0),

    \* line 166: patron_nit = r'AIR-E\s+S\.A\.S\s+ESP\s+NIT:\s*([\d-]+)'
    nit_operador |->
        Patron(Frase(<<"A", "I", "R", "-", "E">>) \o S1
      \o Frase(<<"S", ".", "A", ".", "S">>) \o S1 \o Frase(<<"E", "S", "P">>)
      \o S1 \o Frase(<<"N", "I", "T", ":">>) \o S0
      \o Cap(1, Mas(Digitos \cup {"-"})), 1),

    \* line 172: patron_linea115 = r'Línea\s+115:\s*([^\n]+)'
    linea115 |->
        Patron(Frase(<<"L", "í", "n", "e", "a">>) \o S1
      \o Frase(<<"1", "1", "5", ":">>) \o S0
      \o Cap(1, R({"\n"}, TRUE, 1, -1, FALSE)), 1),

    \* line 177: patron_linea_gratuita = r'018000-930135:\s*([^\n]+)'
    linea_gratuita |->
        Patron(Frase(<<"0", "1", "8", "0", "0", "0", "-", "9", "3", "0", "1", "3", "5", ":">>)
      \o S0 \o Cap(1, R({"\n"}, TRUE, 1, -1, FALSE)), 1),

    \* line 182: patron_linea_fija = r'605-3225016:\s*([^\n]+)'
    linea_fija |->
        Patron(Frase(<<"6", "0", "5", "-", "3", "2", "2", "5", "0", "1", "6", ":">>)
      \o S0 \o Cap(1, R({"\n"}, TRUE, 1, -1, FALSE)), 1),

    \* line 188: patron_dir_operador = r'Dirección:\s*CR\s+57\s+CL\s+99A[^\n]+'
    dir_operador |->
        Patron(Frase(<<"D", "i", "r", "e", "c", "c", "i", "ó", "n", ":">>)
      \o S0 \o Frase(<<"C", "R">>) \o S1 \o Frase(<<"5", "7">>) \o S1
      \o Frase(<<"C", "L">>) \o S1 \o Frase(<<"9", "9", "A">>)
      \o R({"\n"}, TRUE, 1, -1, FALSE), 0),

    \* line 194: patron_pbx = r'PBX:\s*\(([\d]+)\)([\d]+)'
    pbx |->
        Patron(Frase(<<"P", "B", "X", ":">>) \o S0 \o Frase(<<"(">>)
      \o Cap(1, Mas(Digitos)) \o Frase(<<")">>) \o Cap(2, Mas(Digitos)), 2),

    \* line 200: patron_web = r'https://www\.air-e\.com/'
    web |->
        Patron(Frase(<<"h", "t", "t", "p", "s", ":", "/", "/", "w", "w", "w", ".", "a", "i", "r", "-", "e", ".", "c", "o", "m", "/">>), 0),

    \* line 212: patron_periodo = r'Periodo\s+facturado:\s*([\d/]+)', re.IGNORECASE
    periodo |->
        Patron(FraseI(<<"P", "e", "r", "i", "o", "d", "o">>) \o S1
      \o FraseI(<<"f", "a", "c", "t", "u", "r", "a", "d", "o", ":">>) \o S0
      \o Cap(1, Mas(Digitos \cup {"/"})), 1),

    \* line 218: patron_emision = r'Fecha\s+de\s+Emisión:\s*([\d/]+\s+[\d:]+)', re.IGNORECASE
    emision |->
        Patron(FraseI(<<"F", "e", "c", "h", "a">>) \o S1
      \o FraseI(<<"d", "e">>) \o S1
      \o FraseI(<<"E", "m", "i", "s", "i", "ó", "n", ":">>) \o S0
      \o Cap(1, Mas(Digitos \cup {"/"}) \o S1 \o Mas(Digitos \cup {":"})), 1),

    \* line 225: patron_fecha_alt = r'(\d{2}/\d{2}/\d{4}\s+\d{2}:\d{2}:\d{2})'
    fecha_alt |->
        Patron(Cap(1, R(Digitos, FALSE, 2, 2, FALSE) \o Frase(<<"/">>)
      \o R(Digitos, FALSE, 2, 2, FALSE) \o Frase(<<"/">>)
      \o R(Digitos, FALSE, 4, 4, FALSE) \o S1
      \o R(Digitos, FALSE, 2, 2, FALSE) \o Frase(<<":">>)
      \o R(Digitos, FALSE, 2, 2, FALSE) \o Frase(<<":">>)
      \o R(Digitos, FALSE, 2, 2, FALSE)), 1),

    \* line 231: patron_ciudad_fecha = r'Barranquilla\s+(\d{2}/\d{2}/\d{4})'
    ciudad_fecha |->
        Patron(Frase(<<"B", "a", "r", "r", "a", "n", "q", "u", "i", "l", "l", "a">>)
      \o S1 \o Cap(1, R(Digitos, FALSE, 2, 2, FALSE) \o Frase(<<"/">>)
      \o R(Digitos, FALSE, 2, 2, FALSE) \o Frase(<<"/">>)
      \o R(Digitos, FALSE, 4, 4, FALSE)), 1),

    \* line 237: patron_vencimiento = r'Pagar\s+antes\s+del:\s*([\d/]+)', re.IGNORECASE
    vencimiento |->
        Patron(FraseI(<<"P", "a", "g", "a", "r">>) \o S1
      \o FraseI(<<"a", "n", "t", "e", "s">>) \o S1
      \o FraseI(<<"d", "e", "l", ":">>) \o S0
      \o Cap(1, Mas(Digitos \cup {"/"})), 1),

    \* line 243: patron_dias = r'Días\s+facturados:\s*(\d+)'
    dias |->
        Patron(Frase(<<"D", "í", "a", "s">>) \o S1
      \o Frase(<<"f", "a", "c", "t", "u", "r", "a", "d", "o", "s", ":">>)
      \o S0 \o Cap(1, Mas(Digitos)), 1),

    \* line 255: patron_detalle = r'Detalle\s+del\s+cobro.*?Conceptos\s+facturados\s+Valores', re.IGNORECASE | re.DOTALL
    detalle |->
        Patron(FraseI(<<"D", "e", "t", "a", "l", "l", "e">>) \o S1
      \o FraseI(<<"d", "e", "l">>) \o S1
      \o FraseI(<<"c", "o", "b", "r", "o">>) \o R({}, TRUE, 0, -1, TRUE)
      \o FraseI(<<"C", "o", "n", "c", "e", "p", "t", "o", "s">>) \o S1
      \o FraseI(<<"f", "a", "c", "t", "u", "r", "a", "d", "o", "s">>) \o S1
      \o FraseI(<<"V", "a", "l", "o", "r", "e", "s">>), 0),

    \* line 261: patron_peaje = r'Peaje\s+No\s+Regulado\s+\$?([\d,\.]+)'
    peaje |->
        Patron(Frase(<<"P", "e", "a", "j", "e">>) \o S1 \o Frase(<<"N", "o">>)
      \o S1 \o Frase(<<"R", "e", "g", "u", "l", "a", "d", "o">>) \o S1
      \o Opc({"$"}) \o Cap(1, Mas(Digitos \cup {",", "."})), 1),

    \* line 271: patron_penalizacion = r'Penalizacion\s+Energia\s+Reactiva\s+-\s+Peajes\s+\$?([\d,\.]+)'
    penalizacion |->
        Patron(Frase(<<"P", "e", "n", "a", "l", "i", "z", "a", "c", "i", "o", "n">>)
      \o S1 \o Frase(<<"E", "n", "e", "r", "g", "i", "a">>) \o S1
      \o Frase(<<"R", "e", "a", "c", "t", "i", "v", "a">>) \o S1
      \o Frase(<<"-">>) \o S1 \o Frase(<<"P", "e", "a", "j", "e", "s">>) \o S1
      \o Opc({"$"}) \o Cap(1, Mas(Digitos \cup {",", "."})), 1),

    \* line 281: patron_ajuste = r'AJUSTE\s+MONETARIO\s+\$?(-?[\d,\.]+)'
    ajuste |->
        Patron(Frase(<<"A", "J", "U", "S", "T", "E">>) \o S1
      \o Frase(<<"M", "O", "N", "E", "T", "A", "R", "I", "O">>) \o S1
      \o Opc({"$"}) \o Cap(1, Opc({"-"}) \o Mas(Digitos \cup {",", "."})), 1),

    \* line 291: patron_cprog = r'CPROG_PEAJES\s+\$?([\d,\.]+)'
    cprog |->
        Patron(Frase(<<"C", "P", "R", "O", "G", "_", "P", "E", "A", "J", "E", "S">>)
      \o S1 \o Opc({"$"}) \o Cap(1, Mas(Digitos \cup {",", "."})), 1),

    \* line 303: patron_valores = r'([A-Z][A-Za-z\s_-]+?)\s+\$?([\d]{1,3}(?:\.[\d]{3})*(?:,\d{2})?)'
    valores_conceptos |->
        Patron(Cap(1, R(Mayusculas, FALSE, 1, 1, FALSE)
      \o MasL(Mayusculas \cup Minusculas \cup Espacios \cup {"-", "_"})) \o S1
      \o Opc({"$"}) \o Cap(2, R(Digitos, FALSE, 1, 3, FALSE)
      \o Veces(Frase(<<".">>) \o R(Digitos, FALSE, 3, 3, FALSE), 0, -1)
      \o Veces(Frase(<<",">>) \o R(Digitos, FALSE, 2, 2, FALSE), 0, 1)), 2),

    \* line 335: patron_subtotal = r'Subtotal\s+Energia\s+\$?([\d,\.]+)', re.IGNORECASE
    subtotal |->
        Patron(FraseI(<<"S", "u", "b", "t", "o", "t", "a", "l">>) \o S1
      \o FraseI(<<"E", "n", "e", "r", "g", "i", "a">>) \o S1 \o Opc({"$"})
      \o Cap(1, Mas(Digitos \cup {",", "."})), 1),

    \* line 342: patron_deuda = r'Deuda\s+facturas\s+anteriores\s+\$?([\d,\.]+)', re.IGNORECASE
    deuda |->
        Patron(FraseI(<<"D", "e", "u", "d", "a">>) \o S1
      \o FraseI(<<"f", "a", "c", "t", "u", "r", "a", "s">>) \o S1
      \o FraseI(<<"a", "n", "t", "e", "r", "i", "o", "r", "e", "s">>) \o S1
      \o Opc({"$"}) \o Cap(1, Mas(Digitos \cup {",", "."})), 1),

    \* line 349: patron_mensual = r'Facturación\s+Mensual\s+\$?([\d,\.]+)', re.IGNORECASE
    mensual |->
        Patron(FraseI(<<"F", "a", "c", "t", "u", "r", "a", "c", "i", "ó", "n">>)
      \o S1 \o FraseI(<<"M", "e", "n", "s", "u", "a", "l">>) \o S1
      \o Opc({"$"}) \o Cap(1, Mas(Digitos \cup {",", "."})), 1),

    \* line 356: patron_saldo = r'Saldo\s+Actual\s+\$?([\d,\.]+)', re.IGNORECASE
    saldo |->
        Patron(FraseI(<<"S", "a", "l", "d", "o">>) \o S1
      \o FraseI(<<"A", "c", "t", "u", "a", "l">>) \o S1 \o Opc({"$"})
      \o Cap(1, Mas(Digitos \cup {",", "."})), 1),

    \* line 363: patron_interes = r'Tasa\s+interés\s+por\s+mora:\s*([\d,\.]+)%', re.IGNORECASE
    interes |->
        Patron(FraseI(<<"T", "a", "s", "a">>) \o S1
      \o FraseI(<<"i", "n", "t", "e", "r", "é", "s">>) \o S1
      \o FraseI(<<"p", "o", "r">>) \o S1
      \o FraseI(<<"m", "o", "r", "a", ":">>) \o S0
      \o Cap(1, Mas(Digitos \cup {",", "."})) \o FraseI(<<"%">>), 1),

    \* line 369: patron_id_cobro = r'Id\s+Cobro:\s*(\d+)', re.IGNORECASE
    id_cobro |->
        Patron(FraseI(<<"I", "d">>) \o S1
      \o FraseI(<<"C", "o", "b", "r", "o", ":">>) \o S0
      \o Cap(1, Mas(Digitos)), 1),

    \* line 381: patron_sistema = r'Datos\s+sistema\s+informático\s+OPEN\s+INTERNATIONAL\s+S\.A\.S'
    sistema |->
        Patron(Frase(<<"D", "a", "t", "o", "s">>) \o S1
      \o Frase(<<"s", "i", "s", "t", "e", "m", "a">>) \o S1
      \o Frase(<<"i", "n", "f", "o", "r", "m", "á", "t", "i", "c", "o">>)
      \o S1 \o Frase(<<"O", "P", "E", "N">>) \o S1
      \o Frase(<<"I", "N", "T", "E", "R", "N", "A", "T", "I", "O", "N", "A", "L">>)
      \o S1 \o Frase(<<"S", ".", "A", ".", "S">>), 0),

    \* line 387: patron_nit_sistema = r'OPEN\s+INTERNATIONAL\s+S\.A\.S\s+(\d+)'
    nit_sistema |->
        Patron(Frase(<<"O", "P", "E", "N">>) \o S1
      \o Frase(<<"I", "N", "T", "E", "R", "N", "A", "T", "I", "O", "N", "A", "L">>)
      \o S1 \o Frase(<<"S", ".", "A", ".", "S">>) \o S1
      \o Cap(1, Mas(Digitos)), 1),

    \* line 393: patron_software = r'Open\s+Smartflex'
    software |->
        Patron(Frase(<<"O", "p", "e", "n">>) \o S1
      \o Frase(<<"S", "m", "a", "r", "t", "f", "l", "e", "x">>), 0),

    \* line 399: patron_banco = r'cuenta\s+de\s+ahorro\s+No\s+([\d-]+)\s+del\s+banco\s+de\s+(\w+)', re.IGNORECASE
    banco |->
        Patron(FraseI(<<"c", "u", "e", "n", "t", "a">>) \o S1
      \o FraseI(<<"d", "e">>) \o S1
      \o FraseI(<<"a", "h", "o", "r", "r", "o">>) \o S1
      \o FraseI(<<"N", "o">>) \o S1 \o Cap(1, Mas(Digitos \cup {"-"})) \o S1
      \o FraseI(<<"d", "e", "l">>) \o S1
      \o FraseI(<<"b", "a", "n", "c", "o">>) \o S1 \o FraseI(<<"d", "e">>)
      \o S1 \o Cap(2, Mas(Palabra)), 2),

    \* line 406: patron_fiduciaria = r'FIDUOCCIDENTE\s+FID\s+(\d+)'
    fiduciaria |->
        Patron(Frase(<<"F", "I", "D", "U", "O", "C", "C", "I", "D", "E", "N", "T", "E">>)
      \o S1 \o Frase(<<"F", "I", "D">>) \o S1 \o Cap(1, Mas(Digitos)), 1),

    \* line 418: patron_total_pagar = r'Total\s+a\s+pagar\s+mes\s+\$?([\d,\.]+)', re.IGNORECASE
    total_pagar |->
        Patron(FraseI(<<"T", "o", "t", "a", "l">>) \o S1 \o FraseI(<<"a">>)
      \o S1 \o FraseI(<<"p", "a", "g", "a", "r">>) \o S1
      \o FraseI(<<"m", "e", "s">>) \o S1 \o Opc({"$"})
      \o Cap(1, Mas(Digitos \cup {",", "."})), 1),

    \* line 425: patron_total_general = r'\$?(341\.754\.770)'
    total_general |->
        Patron(Opc({"$"})
      \o Cap(1, Frase(<<"3", "4", "1", ".", "7", "5", "4", ".", "7", "7", "0">>)), 1),

    \* line 432: patron_valores = r'\$?([\d]{7,}(?:\.[\d]{3})*)'
    valores_totales |->
        Patron(Opc({"$"}) \o Cap(1, R(Digitos, FALSE, 7, -1, FALSE)
      \o Veces(Frase(<<".">>) \o R(Digitos, FALSE, 3, 3, FALSE), 0, -1)), 1),

    \* line 457: patron_codigo = r'\((\d{3,4})\)(\d+)'
    codigo |->
        Patron(Frase(<<"(">>) \o Cap(1, R(Digitos, FALSE, 3, 4, FALSE))
      \o Frase(<<")">>) \o Cap(2, Mas(Digitos)), 2),

    \* line 464: patron_codigo_completo = r'\(415\)(\d+)\(8020\)(\d+)\(3900\)(\d+)\(96\)(\d+)'
    codigo_completo |->
        Patron(Frase(<<"(", "4", "1", "5", ")">>) \o Cap(1, Mas(Digitos))
      \o Frase(<<"(", "8", "0", "2", "0", ")">>) \o Cap(2, Mas(Digitos))
      \o Frase(<<"(", "3", "9", "0", "0", ")">>) \o Cap(3, Mas(Digitos))
      \o Frase(<<"(", "9", "6", ")">>) \o Cap(4, Mas(Digitos)), 4),

    \* line 473: patron_barcode = r'[|]{10,}'
    barcode |->
        Patron(R({"|"}, FALSE, 10, -1, FALSE), 0)
  ]

(***************************************************************************)
(* Air-e family: the section extractors.                                   *)
(***************************************************************************)
\* float(s.replace(',', '').replace('.', ''))
aire_float_sin_separadores(s) == float_(Quitar(Quitar(s, ","), "."))

aire_extraer_informacion_general(texto) ==
  Reunir(<<
    SiCoincide(re_search(aire_patron.nic, texto), LAMBDA match :
      Ok([nic |-> group(texto, match, 1)])),
    SiCoincide(re_search(aire_patron.doc, texto), LAMBDA match :
      Ok([documento_equivalente |-> group(texto, match, 1)])),
    SiCoincide(re_search(aire_patron.id_cobros, texto), LAMBDA match :
      Ok([id_cobros |-> group(texto, match, 1)])),
    SiHay(re_findall(aire_patron.total, texto), LAMBDA matches :
      Flotante("total_pagar",
               aire_float_sin_separadores(matches[Len(matches)]))),
    SiCoincide(re_search(aire_patron.periodo_fact, texto), LAMBDA match :
      Ok([periodo_facturado_hasta |-> group(texto, match, 1)])),
    SiCoincide(re_search(aire_patron.uso_general, texto), LAMBDA match :
      Ok([peaje_nivel |-> group(texto, match, 1)])) >>)

aire_extraer_datos_cliente(texto) ==
  Reunir(<<
    SiCoincideSiNo(re_search(aire_patron.cliente, texto),
      LAMBDA match : Ok([nombre |-> strip(group(texto, match, 1))]),
      \* if 'nombre' not in datos:
      SiCoincide(re_search(aire_patron.cliente_alt, texto), LAMBDA match :
        Ok([nombre |->
              <<"G", "E", "N", "E", "R", "A", "D", "O", "R", "A", " ", "Y",
                  " ", "C", "O", "M", "E", "R", "C", "I", "A", "L", "I", "Z",
                  "A", "D", "O", "R", "A", " ", "D", "E", " ", "E", "N", "E",
                  "R", "G", "I", "A", " ", "D", "E", "L", " ", "C", "A", "R",
                  "I", "B", "E">>]))),
    SiCoincide(re_search(aire_patron.nit_cliente, texto), LAMBDA match :
      Ok([nit |-> group(texto, match, 1)])),
    SiCoincide(re_search(aire_patron.direccion, texto), LAMBDA match :
      Ok([direccion |-> strip(group(texto, match, 1))])),
    SiCoincide(re_search(aire_patron.planta, texto), LAMBDA match :
      Ok([direccion_planta |-> strip(group(texto, match, 1))])),
    SiCoincide(re_search(aire_patron.municipio, texto), LAMBDA match :
      Ok([municipio |-> group(texto, match, 1)])),
    SiCoincide(re_search(aire_patron.depto, texto), LAMBDA match :
      Ok([departamento |-> group(texto, match, 1)])),
    SiCoincide(re_search(aire_patron.contrato, texto), LAMBDA match :
      Ok([contrato |-> strip(group(texto, match, 1))])),
    SiCoincide(re_search(aire_patron.uso_cliente, texto), LAMBDA match :
      Ok([uso_peaje_nivel |-> group(texto, match, 1)])),
    SiCoincide(re_search(aire_patron.tension, texto), LAMBDA match :
      Ok([nivel_tension |-> strip(group(texto, match, 1))])) >>)

\* s.replace(sub, ''): s without the occurrences of sub, left to right
RECURSIVE QuitarFrase(_, _)
QuitarFrase(s, sub) ==
  IF Len(s) < Len(sub) \/ sub = <<>> THEN s
  ELSE IF SubSeq(s, 1, Len(sub)) = sub
       THEN QuitarFrase(SubSeq(s, Len(sub) + 1, Len(s)), sub)
       ELSE <<Head(s)>> \o QuitarFrase(Tail(s), sub)

aire_extraer_datos_operador(texto) ==
  Reunir(<<
    SiCoincide(re_search(aire_patron.operador, texto), LAMBDA match :
      Ok([nombre |-> <<"A", "I", "R", "-", "E", " ", "S", ".", "A", ".", "S",
          " ", "E", "S", "P">>])),
    SiCoincide(re_search(aire_patron.nit_operador, texto), LAMBDA match :
      Ok([nit |-> group(texto, match, 1)])),
    SiCoincide(re_search(aire_patron.linea115, texto), LAMBDA match :
      Ok([linea_115 |-> strip(group(texto, match, 1))])),
    SiCoincide(re_search(aire_patron.linea_gratuita, texto), LAMBDA match :
      Ok([linea_gratuita |-> <<"0", "1", "8", "0", "0", "0", "-", "9", "3",
          "0", "1", "3", "5">>])),
    SiCoincide(re_search(aire_patron.linea_fija, texto), LAMBDA match :
      Ok([linea_fija |-> <<"6", "0", "5", "-", "3", "2", "2", "5", "0", "1",
          "6">>])),
    SiCoincide(re_search(aire_patron.dir_operador, texto), LAMBDA match :
      Ok([direccion |->
            strip(QuitarFrase(group(texto, match, 0), <<"D", "i", "r", "e",
                "c", "c", "i", "ó", "n", ":">>))])),
    SiCoincide(re_search(aire_patron.pbx, texto), LAMBDA match :
      Ok([pbx |-> <<"(">> \o group(texto, match, 1) \o <<")">>
                  \o group(texto, match, 2)])),
    SiCoincide(re_search(aire_patron.web, texto), LAMBDA match :
      Ok([website |-> group(texto, match, 0)])) >>)

aire_extraer_periodo_facturacion(texto) ==
  Reunir(<<
    SiCoincide(re_search(aire_patron.periodo, texto), LAMBDA match :
      Ok([periodo_facturado |-> group(texto, match, 1)])),
    SiCoincideSiNo(re_search(aire_patron.emision, texto),
      LAMBDA match : Ok([fecha_emision |-> group(texto, match, 1)]),
      \* if 'fecha_emision' not in periodo:
      SiCoincide(re_search(aire_patron.fecha_alt, texto), LAMBDA match :
        Ok([fecha_emision |-> group(texto, match, 1)]))),
    SiHay(re_findall(aire_patron.ciudad_fecha, texto), LAMBDA matches :
      Ok([fecha_ciudad |-> matches[1]])),
    SiCoincide(re_search(aire_patron.vencimiento, texto), LAMBDA match :
      Ok([fecha_vencimiento |-> group(texto, match, 1)])),
    SiCoincide(re_search(aire_patron.dias, texto), LAMBDA match :
      Ok([dias_facturados |-> group(texto, match, 1)])) >>)

\* One of the four searches of tier a: nothing without a match, else the
\* LineItem nombre with the captured amount divided by 100.
aire_concepto_tier_a(texto, patron, nombre) ==
  SiCoincideSiNo(re_search(patron, texto),
    LAMBDA match :
      Convertidos(<<aire_float_sin_separadores(group(texto, match, 1))>>,
                  LAMBDA f : <<[concepto |-> nombre,
                                valor |-> Entre100(f[1])]>>),
    Ok(<<>>))

\* Tier a: the four named charges, searched in the whole text when the
\* header of the detail section is present.
aire_tier_a(texto, conceptos) ==
  Agregados(conceptos,
    SiCoincideSiNo(re_search(aire_patron.detalle, texto),
      LAMBDA match_seccion :
        Concatenar(<<
          aire_concepto_tier_a(texto, aire_patron.peaje,
                               <<"P", "e", "a", "j", "e", " ", "N", "o", " ",
                                   "R", "e", "g", "u", "l", "a", "d", "o">>),
          aire_concepto_tier_a(texto, aire_patron.penalizacion,
                               <<"P", "e", "n", "a", "l", "i", "z", "a", "c",
                                   "i", "ó", "n", " ", "E", "n", "e", "r",
                                   "g", "í", "a", " ", "R", "e", "a", "c",
                                   "t", "i", "v", "a", " ", "-", " ", "P",
                                   "e", "a", "j", "e", "s">>),
          aire_concepto_tier_a(texto, aire_patron.ajuste,
                               <<"A", "J", "U", "S", "T", "E", " ", "M", "O",
                                   "N", "E", "T", "A", "R", "I", "O">>),
          aire_concepto_tier_a(texto, aire_patron.cprog,
                               <<"C", "P", "R", "O", "G", "_", "P", "E", "A",
                                   "J", "E", "S">>) >>),
      Ok(<<>>)))

aire_palabras_clave ==
  {<<"P", "E", "A", "J", "E">>, <<"E", "N", "E", "R", "G", "I", "A">>, <<"A",
      "J", "U", "S", "T", "E">>, <<"C", "P", "R", "O", "G">>}

\* One round of the loop of tier b: the pair is kept when its name holds a
\* key word and its amount parses (try/except) and is positive.
aire_concepto_valor(concepto_nombre, valor) ==
  IF /\ \E palabra \in aire_palabras_clave :
          Contiene(upper(concepto_nombre), palabra)
     /\ ~valor.exc
     /\ Menor(Decimal(FALSE, <<>>, <<>>), valor.v)
  THEN <<[concepto |-> strip(concepto_nombre), valor |-> valor.v]>>
  ELSE <<>>

\* for concepto_nombre, valor_str in matches: ...
aire_conceptos_valores(matches) ==
  Aplanar([i \in DOMAIN matches |->
    aire_concepto_valor(matches[i][1],
      float_(Cambiar(Quitar(matches[i][2], "."), ",", ".")))])

\* Tier b: every "Name amount" pair of the text, if tier a left none.
aire_tier_b(texto, conceptos) ==
  IF conceptos # <<>> THEN NoCorrio(conceptos)
  ELSE Agregados(conceptos,
         Ok(aire_conceptos_valores(
              re_findall(aire_patron.valores_conceptos, texto))))

\* The literal values of the known document.
aire_conceptos_conocidos ==
  << [concepto |-> <<"P", "e", "a", "j", "e", " ", "N", "o", " ", "R", "e",
      "g", "u", "l", "a", "d", "o">>,
      valor |-> [neg |-> FALSE, ent |-> <<"2", "4", "7", "5", "4", "3", "8",
          "5">>, frac |-> <<"6", "7">>]],
     [concepto |-> <<"P", "e", "n", "a", "l", "i", "z", "a", "c", "i", "ó",
         "n", " ", "E", "n", "e", "r", "g", "í", "a", " ", "R", "e", "a", "c",
         "t", "i", "v", "a", " ", "-", " ", "P", "e", "a", "j", "e", "s">>,
      valor |-> [neg |-> FALSE, ent |-> <<"5", "5", "4", "9">>, frac |-> <<
          "5", "6">>]],
     [concepto |-> <<"A", "J", "U", "S", "T", "E", " ", "M", "O", "N", "E",
         "T", "A", "R", "I", "O">>,
      valor |-> [neg |-> TRUE, ent |-> <<>>, frac |-> <<"2", "3">>]],
     [concepto |-> <<"C", "P", "R", "O", "G", "_", "P", "E", "A", "J", "E",
         "S">>,
      valor |-> [neg |-> FALSE, ent |-> <<"3", "1", "6", "9", "9", "4", "8",
          "3", "5">>, frac |-> <<>>]] >>

\* A variant of tier c that supplies nothing.
aire_tier_c_vacio(texto, conceptos) == NoCorrio(conceptos)

\* Tier c: the literal LineItems, if tiers a and b left none.
aire_tier_c(texto, conceptos) ==
  IF conceptos # <<>> THEN NoCorrio(conceptos)
  ELSE Agregados(conceptos, Ok(aire_conceptos_conocidos))

aire_extraer_conceptos_facturados(texto) ==
  Devuelto(Luego(Luego(aire_tier_a(texto, <<>>),
                       LAMBDA conceptos : aire_tier_b(texto, conceptos)),
                 LAMBDA conceptos : aire_tier_c(texto, conceptos)))

aire_extraer_informacion_pago(texto) ==
  Reunir(<<
    SiCoincide(re_search(aire_patron.subtotal, texto), LAMBDA match :
      Flotante("subtotal_energia",
               aire_float_sin_separadores(group(texto, match, 1)))),
    SiCoincide(re_search(aire_patron.deuda, texto), LAMBDA match :
      Flotante("deuda_anterior",
               aire_float_sin_separadores(group(texto, match, 1)))),
    SiCoincide(re_search(aire_patron.mensual, texto), LAMBDA match :
      Flotante("facturacion_mensual",
               aire_float_sin_separadores(group(texto, match, 1)))),
    SiCoincide(re_search(aire_patron.saldo, texto), LAMBDA match :
      Flotante("saldo_actual",
               aire_float_sin_separadores(group(texto, match, 1)))),
    SiCoincide(re_search(aire_patron.interes, texto), LAMBDA match :
      Ok([tasa_interes_mora |-> group(texto, match, 1)])),
    SiCoincide(re_search(aire_patron.id_cobro, texto), LAMBDA match :
      Ok([id_cobro |-> group(texto, match, 1)])) >>)

\* A variant that reports the software without searching for it.
aire_datos_tecnicos_sin_buscar(texto) ==
  Ok([software |-> <<"O", "p", "e", "n", " ", "S", "m", "a", "r", "t", "f",
      "l", "e", "x">>])

aire_extraer_datos_tecnicos(texto) ==
  Reunir(<<
    SiCoincide(re_search(aire_patron.sistema, texto), LAMBDA match :
      Ok([sistema |-> <<"O", "P", "E", "N", " ", "I", "N", "T", "E", "R", "N",
          "A", "T", "I", "O", "N", "A", "L", " ", "S", ".", "A", ".", "S"
          >>])),
    SiCoincide(re_search(aire_patron.nit_sistema, texto), LAMBDA match :
      Ok([nit_sistema |-> group(texto, match, 1)])),
    SiCoincide(re_search(aire_patron.software, texto), LAMBDA match :
      Ok([software |-> <<"O", "p", "e", "n", " ", "S", "m", "a", "r", "t",
          "f", "l", "e", "x">>])),
    SiCoincide(re_search(aire_patron.banco, texto), LAMBDA match :
      Ok([cuenta_bancaria |-> group(texto, match, 1),
          banco |-> group(texto, match, 2)])),
    SiCoincide(re_search(aire_patron.fiduciaria, texto), LAMBDA match :
      Ok([fiduciaria_fid |-> group(texto, match, 1)])) >>)

\* The values of the conversions that did not raise, in order.
Aceptados(fs) ==
  Aplanar([i \in DOMAIN fs |-> IF fs[i].exc THEN <<>> ELSE <<fs[i].v>>])

\* for m in matches: try: valores.append(float(m.replace('.', '')))
aire_valores(matches) ==
  Aceptados([i \in DOMAIN matches |-> float_(Quitar(matches[i], "."))])

aire_extraer_totales(texto) ==
  Reunir(<<
    SiCoincide(re_search(aire_patron.total_pagar, texto), LAMBDA match :
      Flotante("total_pagar_mes",
               aire_float_sin_separadores(group(texto, match, 1)))),
    SiHay(re_findall(aire_patron.total_general, texto), LAMBDA matches :
      Flotante("total_general", float_(Quitar(matches[1], ".")))),
    SiHay(re_findall(aire_patron.valores_totales, texto), LAMBDA matches :
      SiHay(aire_valores(matches), LAMBDA valores :
        Ok(Estadisticas(valores)))) >>)

\* The loop over the (prefijo, valor) pairs, from index i on.
RECURSIVE aire_codigos_paso(_, _, _)
aire_codigos_paso(codigos, matches, i) ==
  IF i > Len(matches) THEN codigos
  ELSE aire_codigos_paso(
         Poner(codigos, "codigo_" \o Cadena(matches[i][1]), matches[i][2]),
         matches, i + 1)

aire_extraer_codigos_barras(texto) ==
  Reunir(<<
    Ok(aire_codigos_paso(DictVacio, re_findall(aire_patron.codigo, texto), 1)),
    SiCoincide(re_search(aire_patron.codigo_completo, texto), LAMBDA match :
      Ok([codigo_415_completo |-> group(texto, match, 1),
          codigo_8020_completo |-> group(texto, match, 2),
          codigo_3900_completo |-> group(texto, match, 3),
          codigo_96_completo |-> group(texto, match, 4)])),
    SiHay(re_findall(aire_patron.barcode, texto), LAMBDA matches :
      Ok([tiene_codigo_barras |-> <<"S", "i">>])) >>)

(***************************************************************************)
(* The texts handed to the extractors.  A text is a known sample, or up to *)
(* MaxFrag fragments of an invoice joined by line breaks.                  *)
(***************************************************************************)
MaxFrag == 2

Fragmentos ==
  << \* TOTAL A PAGAR 1,234
     <<"T", "O", "T", "A", "L", " ", "A", " ", "P", "A", "G", "A", "R", " ",
         "1", ",", "2", "3", "4">>,
     \* TOTAL A PAGAR ,   (a capture made of a separator only)
     <<"T", "O", "T", "A", "L", " ", "A", " ", "P", "A", "G", "A", "R", " ",
         ",">>,
     \* two tokens of seven digits
     <<"1", "2", "3", "4", "5", "6", "7">>,
     <<"9", "9", "9", "9", "9", "9", "9">>,
     \* a nine-field line of the ESSA table, with and without its number
     <<"1", " ", "6", "7", "2", " ", "C", "P", "R", "O", "G", " ", "P", "e",
         "s", "o", " ", "5", " ", "1", " ", "0", " ", "0", " ", "5">>,
     <<"6", "7", "2", " ", "C", "P", "R", "O", "G", " ", "P", "e", "s", "o",
         " ", "5", " ", "1", " ", "0", " ", "0", " ", "5">>,
     \* the header of the Air-e detail section, and one of its charges
     <<"D", "e", "t", "a", "l", "l", "e", " ", "d", "e", "l", " ", "c", "o",
         "b", "r", "o", " ", "C", "o", "n", "c", "e", "p", "t", "o", "s", " ",
         "f", "a", "c", "t", "u", "r", "a", "d", "o", "s", " ", "V", "a", "l",
         "o", "r", "e", "s">>,
     <<"P", "e", "a", "j", "e", " ", "N", "o", " ", "R", "e", "g", "u", "l",
         "a", "d", "o", " ", "$", "2", "4", ".", "7", "5", "4", ".", "3", "8",
         "5", ",", "6", "7">>,
     \* scalar fields of either family
     <<"N", "I", "C", ":", " ", "1", "2", " ", "C", "U", "E", "N", "T", "A",
         "-", "N", "I", "U", " ", "3", "4">>,
     <<"T", "o", "t", "a", "l", " ", "a", " ", "p", "a", "g", "a", "r", " ",
         "m", "e", "s", " ", "5">>,
     \* a number of six digits, and a second total
     <<"1", "2", "3", "4", "5", "6">>,
     <<"T", "O", "T", "A", "L", " ", "A", " ", "P", "A", "G", "A", "R", " ",
         "7", "7">> >>

\* The ESSA table between its header and the total.
DocTablaEssa ==
  <<"N", "r", "o", ".", " ", "C", "Ó", "D", "I", "G", "O", " ", "C", "O", "N",
      "C", "E", "P", "T", "O", " ", "U", "N", "I", "D", "A", "D", " ", "V",
      "R", "\\", "U", "N", "I", "D", "A", "D", " ", "C", "A", "N", "T", "I",
      "D", "A", "D", " ", "I", "V", "A", " ", "S", "A", "L", "D", "O", " ",
      "V", "A", "L", "O", "R", " ", "M", "E", "S", "\n", "1", " ", "6", "7",
      "2", " ", "C", "P", "R", "O", "G", " ", "P", "e", "s", "o", " ", "5",
      " ", "1", " ", "0", " ", "0", " ", "5", "\n", "T", "O", "T", "A", "L",
      " ", "A", " ", "P", "A", "G", "A", "R", " ", "5">>

\* The same table with an amount that holds two decimal points.
DocTablaEssaDosPuntos ==
  <<"N", "r", "o", ".", " ", "C", "Ó", "D", "I", "G", "O", " ", "C", "O", "N",
      "C", "E", "P", "T", "O", " ", "U", "N", "I", "D", "A", "D", " ", "V",
      "R", "\\", "U", "N", "I", "D", "A", "D", " ", "C", "A", "N", "T", "I",
      "D", "A", "D", " ", "I", "V", "A", " ", "S", "A", "L", "D", "O", " ",
      "V", "A", "L", "O", "R", " ", "M", "E", "S", "\n", "1", " ", "6", "7",
      "2", " ", "C", "P", "R", "O", "G", " ", "P", "e", "s", "o", " ", "1",
      ".", "2", ".", "3", " ", "1", " ", "0", " ", "0", " ", "5", "\n", "T",
      "O", "T", "A", "L", " ", "A", " ", "P", "A", "G", "A", "R", " ", "5">>

\* The Air-e detail section that carries the four charges of the known
\* document.
DocDetalleAire ==
  <<"D", "e", "t", "a", "l", "l", "e", " ", "d", "e", "l", " ", "c", "o", "b",
      "r", "o", "\n", "C", "o", "n", "c", "e", "p", "t", "o", "s", " ", "f",
      "a", "c", "t", "u", "r", "a", "d", "o", "s", " ", "V", "a", "l", "o",
      "r", "e", "s", "\n", "P", "e", "a", "j", "e", " ", "N", "o", " ", "R",
      "e", "g", "u", "l", "a", "d", "o", " ", "$", "2", "4", ".", "7", "5",
      "4", ".", "3", "8", "5", ",", "6", "7", "\n", "P", "e", "n", "a", "l",
      "i", "z", "a", "c", "i", "o", "n", " ", "E", "n", "e", "r", "g", "i",
      "a", " ", "R", "e", "a", "c", "t", "i", "v", "a", " ", "-", " ", "P",
      "e", "a", "j", "e", "s", " ", "$", "5", ".", "5", "4", "9", ",", "5",
      "6", "\n", "A", "J", "U", "S", "T", "E", " ", "M", "O", "N", "E", "T",
      "A", "R", "I", "O", " ", "$", "-", "0", ",", "2", "3", "\n", "C", "P",
      "R", "O", "G", "_", "P", "E", "A", "J", "E", "S", " ", "$", "3", "1",
      "6", ".", "9", "9", "4", ".", "8", "3", "5", ",", "0", "0">>

\* Further sample texts, by name: charge lines of the ESSA table on their
\* own, texts that match both patterns of a field, a bar code whose prefix
\* occurs twice, one number of sixteen digits three times.
Muestras ==
  [linea_essa |-> <<"1", " ", "6", "7", "2", " ", "C", "P", "R", "O", "G",
      " ", "P", "e", "s", "o", " ", "7", "9", "0", "5", "9", "5", "1", "2",
      ".", "0", "0", "0", "0", " ", "1", " ", "0", " ", "0", " ", "7", "9",
      "0", "5", "9", "5", "1", "2">>,
   linea_comas |->
     <<"2", " ", "3", "8", "4", " ", "P", "E", "A", "J", "E", " ", "A", "C",
         "T", "I", "V", "A", " ", "K", "W", "H", " ", "1", "1", ".", "5", "3",
         "7", "7", " ", "3", ",", "6", "3", "8", ",", "0", "0", "2", " ", "0",
         " ", "0", " ", "4", "1", ",", "9", "7", "4", ",", "0", "2", "0">>,
   \* 1 672 A Peso 5 1 0 0 5
   linea_letra |->
     <<"1", " ", "6", "7", "2", " ", "A", " ", "P", "e", "s", "o", " ", "5",
         " ", "1", " ", "0", " ", "0", " ", "5">>,
   linea_cero |-> <<"0", " ", "6", "7", "2", " ", "C", "P", "R", "O", "G",
       " ", "P", "e", "s", "o", " ", "5", " ", "1", " ", "0", " ", "0", " ",
       "5">>,
   niu_doble |-> <<"C", "U", "E", "N", "T", "A", "-", "N", "I", "U", " ", "3",
       "4", "\n", "C", "ó", "d", "i", "g", "o", " ", "C", "u", "e", "n", "t",
       "a", "-", "N", "I", "U", " ", "1", "2">>,
   cliente_doble |->
     <<"0", "1", "/", "0", "2", "/", "2", "0", "2", "4", " ", "1", "0", ":",
         "0", "0", ":", "0", "0", "\n", "G", "E", "N", "E", "R", "A", "D",
         "O", "R", "A", " ", "Y", " ", "C", "O", "M", "E", "R", "C", "I", "A",
         "L", "I", "Z", "A", "D", "O", "R", "A", " ", "D", "E", " ", "E", "N",
         "E", "R", "G", "I", "A", " ", "D", "E", "L", " ", "C", "A", "R", "I",
         "B", "E", "\n", "C", "l", "i", "e", "n", "t", "e", ":", " ", "A",
         "C", "M", "E", "\n", "F", "e", "c", "h", "a", " ", "d", "e", " ",
         "E", "m", "i", "s", "i", "ó", "n", ":", " ", "0", "3", "/", "0", "4",
         "/", "2", "0", "2", "4", " ", "1", "1", ":", "1", "2">>,
   codigo_repetido |-> <<"(", "4", "1", "5", ")", "1", "(", "4", "1", "5",
       ")", "2">>,
   \* 3066623080875415 3066623080875415 3066623080875415
   tres_iguales |->
     <<"3", "0", "6", "6", "6", "2", "3", "0", "8", "0", "8", "7", "5", "4",
       "1", "5", " ", "3", "0", "6", "6", "6", "2", "3", "0", "8", "0", "8",
       "7", "5", "4", "1", "5", " ", "3", "0", "6", "6", "6", "2", "3", "0",
       "8", "0", "8", "7", "5", "4", "1", "5">>]

\* A float that holds a non-negative amount, from its digits.
Monto(ent, frac) == [neg |-> FALSE, ent |-> ent, frac |-> frac]

\* The digits of an integer in groups of three from the right, with sep
\* between the groups.
RECURSIVE Agrupar(_, _)
Agrupar(ent, sep) ==
  IF Len(ent) <= 3 THEN ent
  ELSE Agrupar(SubSeq(ent, 1, Len(ent) - 3), sep) \o <<sep>>
       \o SubSeq(ent, Len(ent) - 2, Len(ent))

\* An amount written with miles between the thousands and coma before the
\* decimals, when it has any.
Formato(x, miles, coma) ==
  Agrupar(x.ent, miles)
  \o (IF x.frac = <<>> THEN <<>> ELSE <<coma>> \o x.frac)

\* The amounts written into the texts below.
MontosPrueba ==
  {Monto(<<"5", "5", "4", "9">>, <<"5", "6">>), Monto(<<"1", "2">>, <<"3", "4"
      >>), Monto(<<"1", "2", "3", "4">>, <<>>),
   Monto(<<"2", "4", "7", "5", "4", "3", "8", "5">>, <<>>)}

\* A text whose field campo holds the amount x in the convention of its
\* family: a charge line of ESSA, a payment amount of Air-e, a charge of
\* the Air-e detail section.
TextoConMonto(campo, x) ==
  CASE campo = "linea_essa" ->
         <<"1", " ", "6", "7", "2", " ", "C", "P", "R", "O", "G", " ", "P",
             "e", "s", "o", " ">> \o Formato(x, ",", ".") \o <<" ", "1", " ",
             "0", " ", "0", " ", "5">>
    [] campo = "pago_aire" ->
         <<"S", "u", "b", "t", "o", "t", "a", "l", " ", "E", "n", "e", "r",
             "g", "i", "a", " ", "$">> \o Formato(x, ".", ",")
    [] campo = "detalle_aire" ->
         <<"D", "e", "t", "a", "l", "l", "e", " ", "d", "e", "l", " ", "c",
             "o", "b", "r", "o", " ", "C", "o", "n", "c", "e", "p", "t", "o",
             "s", " ", "f", "a", "c", "t", "u", "r", "a", "d", "o", "s", " ",
             "V", "a", "l", "o", "r", "e", "s", "\n", "C", "P", "R", "O", "G",
             "_", "P", "E", "A", "J", "E", "S", " ", "$">>
         \o Formato(x, ".", ",")

Documentos == {DocTablaEssa, DocTablaEssaDosPuntos, DocDetalleAire}

\* The sample texts of one family: each holds fields of that family only.
MuestrasDe(f) ==
  IF f = "essa"
  THEN {Muestras.linea_essa, Muestras.linea_comas, Muestras.linea_cero,
        Muestras.linea_letra, Muestras.niu_doble, Muestras.codigo_repetido,
        Muestras.tres_iguales}
       \cup {TextoConMonto("linea_essa", x) : x \in MontosPrueba}
  ELSE {Muestras.cliente_doble, Muestras.codigo_repetido,
        Muestras.tres_iguales}
       \cup {TextoConMonto(campo, x) :
               campo \in {"pago_aire", "detalle_aire"}, x \in MontosPrueba}

\* '\n'.join of the chosen fragments
RECURSIVE Unir(_)
Unir(fs) ==
  IF fs = <<>> THEN <<>>
  ELSE IF Len(fs) = 1 THEN Fragmentos[fs[1]]
  ELSE Fragmentos[fs[1]] \o <<"\n">> \o Unir(Tail(fs))

Textos ==
  Documentos
  \cup {Unir(fs) : fs \in UNION {[1..n -> 1..Len(Fragmentos)] : n \in 0..MaxFrag}}

Familias == {"essa", "aire"}

(***************************************************************************)
(* The state: one run over one text, either of main() (PDFReader, then the *)
(* extractor) or of a DataExtractor built by a caller.                     *)
(***************************************************************************)
VARIABLES
  familia,    \* the invoice family of the modules in use
  entrada,    \* "main" or "DataExtractor": who builds the extractor
  entregado,  \* the text the PDF yields, or the caller passes
  texto,      \* self.texto
  datos,      \* self.datos
  resultado,  \* the dict display under construction in extraer_todos_los_datos
  conceptos,  \* the local list of extraer_conceptos_facturados
  tiers,      \* history: the list after each tier that was reached
  corrio,     \* history: the tiers whose body ran
  pc,         \* the position of the run
  salida,     \* the exit status of main(), -1 while it runs
  archivo,    \* "presente" or "ausente": whether the PDF file exists
  hojas,      \* self.workbook of the ExcelWriter: its sheets in order
  guardado,   \* history: the number of times the workbook was saved
  anteriores, \* history: the results the earlier calls returned
  argv,       \* the options of the command line
  dependencias, \* "completas" or "faltantes": the modules that import
  globales,   \* the attributes the __main__ block sets on its module
  abierto,    \* the path main() handed to the PDFReader, if any
  archivo_salida, \* self.archivo_salida of the ExcelWriter
  salvado,    \* the path the workbook was saved to, if any
  disponibles, \* the PDF libraries that import
  documento,  \* the PDF file: its pages and what each library does on it
  lector,     \* the PDFReader: texto_completo, texto_por_pagina, metodo_usado
  invocados,  \* history: the methods the last extraction invoked, in order
  retorno,    \* history: the last operation on the reader and its outcome
  devuelto,   \* history: the last non-empty text an extraction returned
  extracciones \* history: the number of extractions begun

vars == <<familia, entrada, entregado, texto, datos, resultado, conceptos,
          tiers, corrio, pc, salida, archivo, hojas, guardado, anteriores,
          argv, dependencias, globales, abierto, archivo_salida, salvado,
          disponibles, documento, lector, invocados, retorno, devuelto,
          extracciones>>

\* The calls of extraer_todos_los_datos that follow the first one.
MaxLlamadas == 2

\* The file, the workbook and its history.
libro == <<archivo, hojas, guardado>>

\* The command line and what it sets.
comandos == <<argv, dependencias, globales>>

\* The reader of the PDF file, its libraries and its history.
lectura == <<disponibles, documento, lector, invocados, retorno, devuelto,
             extracciones>>

\* What the steps of the extractor and of the sheets leave alone.
otras == <<anteriores, comandos, abierto, archivo_salida, salvado, lectura>>

\* None
Ninguno == "None"

\* pdf_path and output_excel as main() assigns them.
Configuracion(f) ==
  IF f = "essa"
  THEN [pdf_path |-> "119325 - SDL ESSA.pdf",
        output_excel |-> "factura_essa_datos.xlsx"]
  ELSE [pdf_path |-> "118860 - SDL AIR-E.pdf",
        output_excel |-> "factura_aire_datos.xlsx"]

\* A command line without options, and the command lines of the model:
\* --help, one of --verbose, --debug and --csv, --pdf PATH, --output PATH.
SinArgumentos ==
  [ayuda |-> FALSE, otra |-> FALSE, pdf |-> Ninguno, output |-> Ninguno]

Argumentos ==
  [ayuda : BOOLEAN, otra : BOOLEAN, pdf : {Ninguno, "mi_factura.pdf"},
   output : {Ninguno, "resultado.xlsx"}]

\* procesar_argumentos: args.pdf and args.output, with their defaults.
procesar_argumentos(a) ==
  [pdf |-> IF a.pdf = Ninguno THEN "factura_aire.pdf" ELSE a.pdf,
   output |-> IF a.output = Ninguno THEN "factura_aire_datos.xlsx"
              ELSE a.output]

\* The keys of the dict display, in its order.
Secciones(f) ==
  IF f = "essa"
  THEN <<"informacion_general", "datos_comercializador", "datos_cliente",
         "periodo_facturacion", "conceptos_facturados", "informacion_pago",
         "datos_tecnicos", "informacion_recaudo", "totales", "codigos_barras">>
  ELSE <<"informacion_general", "datos_cliente", "datos_operador",
         "periodo_facturacion", "conceptos_facturados", "informacion_pago",
         "datos_tecnicos", "totales", "codigos_barras">>

\* The entry evaluated after seccion, or "retornar" after the last one.
Siguiente(f, seccion) ==
  LET i == CHOOSE j \in 1..Len(Secciones(f)) : Secciones(f)[j] = seccion
  IN IF i = Len(Secciones(f)) THEN "retornar" ELSE Secciones(f)[i + 1]

(***************************************************************************)
(* The PDFReader.  A document is its pages, each with the text that        *)
(* extract_text() gives for it, and what every library does on it: whether *)
(* it opens the file, whether it reads the text of the pages, and the page *)
(* whose extract_text() raises, 0 when none does.  The characters "NUL"    *)
(* and "BOM" stand for \x00 and \ufeff.                                    *)
(***************************************************************************)
MaxPaginas == 2

\* The extractions a run begins.
MaxExtracciones == 2

\* The order of extraer_texto.
Respaldos == <<"pdfplumber", "pypdf", "PyPDF2">>

\* The order of extraer_texto_con_fallback.
metodos == <<"pdfplumber", "pypdf", "PyPDF2", "alternativo">>

\* PDFReader.__init__
LectorNuevo ==
  [texto_completo |-> <<>>, texto_por_pagina |-> <<>>, metodo_usado |-> Ninguno]

\* The values the methods return, and the ways they are left.
Str(t) == [tipo |-> "str", v |-> t]

None == [tipo |-> "None", v |-> <<>>]

Exception == [tipo |-> "excepcion", v |-> <<>>]

Exit(codigo) == [tipo |-> "salida", v |-> <<>>, codigo |-> codigo]

\* Variant: if texto is not None:
NoEsNone(r) == r.tipo = "str"

\* if texto:
Verdadero(r) == r.tipo = "str" /\ r.v # <<>>

\* The elements of s at the indexes K, in order.
Escogidos(s, K) ==
  [n \in 1..Cardinality(K) |->
     s[CHOOSE i \in K : Cardinality({j \in K : j < i}) = n - 1]]

\* '\n'.join(partes)
RECURSIVE join_lineas(_)
join_lineas(partes) ==
  IF partes = <<>> THEN <<>>
  ELSE IF Len(partes) = 1 THEN partes[1]
  ELSE partes[1] \o <<"\n">> \o join_lineas(Tail(partes))

\* re.sub(r'[ \t]+', ' ', texto)
EspaciosSimples(t) ==
  Cambiar(Escogidos(t, {i \in 1..Len(t) :
                          \/ t[i] \notin {" ", "\t"}
                          \/ i = 1
                          \/ t[i - 1] \notin {" ", "\t"}}),
          "\t", " ")

\* re.sub(r'\n{3,}', '\n\n', texto)
SaltosDobles(t) ==
  Escogidos(t, {i \in 1..Len(t) :
                  ~(i >= 3 /\ t[i] = "\n" /\ t[i - 1] = "\n" /\ t[i - 2] = "\n")})

\* [linea.strip() for linea in lineas]
SinBordes(lineas) == [n \in DOMAIN lineas |-> strip(lineas[n])]

_limpiar_texto(t) ==
  IF t = <<>> THEN <<>>
  ELSE SaltosDobles(join_lineas(SinBordes(split_lineas(
         EspaciosSimples(Quitar(Quitar(t, "NUL"), "BOM"))))))

SinFalla == [abre |-> TRUE, lee |-> TRUE, falla |-> 0]

\* What library b does on a document of n pages: it reads every page, its
\* extract_text() raises on one page, it finds no text (pdfplumber, pypdf)
\* or it cannot open the file (PyPDF2).
Modos(b, n) ==
  {[abre |-> TRUE, lee |-> TRUE, falla |-> k] : k \in 0..n}
  \cup {IF b = "PyPDF2" THEN [abre |-> FALSE, lee |-> TRUE, falla |-> 0]
        ELSE [abre |-> TRUE, lee |-> FALSE, falla |-> 0]}

\* The texts extract_text() gives for page i.
TextosDePagina(i) ==
  {<<>>, <<" ">>,
   IF i % 2 = 1 THEN <<" ", "A", "NUL", " ", "\t", "7", "\n", " ">>
   ELSE <<"BOM", "C", "\t", "\n", "\n", " ", "\n", "\n", "D">>}

\* The documents of the model: a library that does not import has the
\* mode SinFalla, and the stream method is tried only with PyPDF2.
Documentos_PDF(disp) ==
  UNION {[paginas : {p \in [1..n -> UNION {TextosDePagina(i) : i \in 1..n}] :
                       \A i \in 1..n : p[i] \in TextosDePagina(i)},
          modo : {m \in [{"pdfplumber", "pypdf", "PyPDF2"}
                          -> UNION {Modos(b, n) : b \in {"pdfplumber", "PyPDF2"}}] :
                    \A b \in DOMAIN m :
                      m[b] \in IF b \in disp THEN Modos(b, n) ELSE {SinFalla}},
          alternativo : IF "PyPDF2" \in disp THEN {"texto", "falla"}
                        ELSE {"falla"}] : n \in 1..MaxPaginas}

\* A page of text that every library reads.
DocumentoLegible ==
  [paginas |-> <<<<"A">>>>,
   modo |-> [b \in {"pdfplumber", "pypdf", "PyPDF2"} |-> SinFalla],
   alternativo |-> "falla"]

\* No operation yet.
SinRetorno == [op |-> "", r |-> None]

\* pagina.extract_text() of library b on page i
extract_text(doc, b, i) == IF doc.modo[b].lee THEN doc.paginas[i] ELSE <<>>

\* The pages whose extract_text() returned: pdfplumber and pypdf stop at the
\* page that raises, PyPDF2 continues with the next page.
Vistas(doc, b) ==
  IF ~doc.modo[b].abre THEN {}
  ELSE IF b = "PyPDF2" THEN (1..Len(doc.paginas)) \ {doc.modo[b].falla}
  ELSE {i \in 1..Len(doc.paginas) :
          doc.modo[b].falla = 0 \/ i < doc.modo[b].falla}

\* except Exception as e: ... return None
Lanza(doc, b) ==
  \/ ~doc.modo[b].abre
  \/ b # "PyPDF2" /\ doc.modo[b].falla # 0

\* The cleaned texts the loop over the pages appends.
Limpias(doc, b) ==
  Escogidos([i \in 1..Len(doc.paginas) |-> _limpiar_texto(extract_text(doc, b, i))],
            {i \in Vistas(doc, b) : extract_text(doc, b, i) # <<>>})

\* self.texto_por_pagina.append(texto_pagina) for the pages of
\* texto_completo, and, unless an exception left the method, `if
\* texto_completo: self.texto_completo = '\n'.join(texto_completo); return
\* self.texto_completo`
ConPaginas(l, texto_completo, lanza) ==
  IF lanza \/ texto_completo = <<>>
  THEN [lector |-> [l EXCEPT !.texto_por_pagina = @ \o texto_completo],
        r |-> None]
  ELSE [lector |-> [l EXCEPT !.texto_por_pagina = @ \o texto_completo,
                             !.texto_completo = join_lineas(texto_completo)],
        r |-> Str(join_lineas(texto_completo))]

\* _extraer_con_pdfplumber, _extraer_con_pypdf, _extraer_con_pypdf2: the
\* reader afterwards and the value returned.
_extraer_con(l, doc, b) == ConPaginas(l, Limpias(doc, b), Lanza(doc, b))

\* ' '.join(matches) for a page whose content stream shows the strings
\* (A) and (7).
TextoDelFlujo == <<"A", " ", "7">>

\* _extraer_texto_alternativo: the strings of the content streams, one line
\* a page, or None when PyPDF2 cannot open the file or the streams cannot
\* be read; the reader is left as it was.
_extraer_texto_alternativo(l, doc) ==
  [lector |-> l,
   r |-> IF ~doc.modo["PyPDF2"].abre \/ doc.alternativo # "texto" THEN None
         ELSE Str(join_lineas([i \in 1..Len(doc.paginas) |-> TextoDelFlujo]))]

\* nombre's method
Metodo(l, doc, nombre) ==
  IF nombre = "alternativo" THEN _extraer_texto_alternativo(l, doc)
  ELSE _extraer_con(l, doc, nombre)

\* PDFPLUMBER_AVAILABLE, PYPDF_AVAILABLE, PYPDF2_AVAILABLE
Disponible(disp, nombre) ==
  IF nombre = "alternativo" THEN "PyPDF2" \in disp ELSE nombre \in disp

\* texto = metodo(); if texto: self.metodo_usado = nombre; return texto,
\* and otherwise the methods that follow.
RECURSIVE Intentar(_, _, _, _, _)
Intentado(x, doc, disp, ms, hechos) ==
  IF Verdadero(x.r)
  THEN [lector |-> [x.lector EXCEPT !.metodo_usado = Head(ms)],
        invocados |-> Append(hechos, Head(ms)),
        r |-> x.r]
  ELSE Intentar(x.lector, doc, disp, Tail(ms), Append(hechos, Head(ms)))

\* The methods of ms that import are tried in order, up to the first whose
\* text is true.
Intentar(l, doc, disp, ms, hechos) ==
  IF ms = <<>> THEN [lector |-> l, invocados |-> hechos, r |-> None]
  ELSE IF ~Disponible(disp, Head(ms))
  THEN Intentar(l, doc, disp, Tail(ms), hechos)
  ELSE Intentado(Metodo(l, doc, Head(ms)), doc, disp, ms, hechos)

\* After the last method: x when a text was returned, and r otherwise.
Terminado(x, r) == IF x.r.tipo = "str" THEN x ELSE [x EXCEPT !.r = r]

\* Variant: PyPDF2 is tried first.
extraer_texto_desde_pypdf2(l, doc, disp) ==
  Terminado(Intentar(l, doc, disp, <<"PyPDF2", "pypdf", "pdfplumber">>, <<>>),
            IF disp = {} THEN Exit(1) ELSE Exception)

\* PDFReader.extraer_texto: the reader afterwards, the methods invoked and
\* the text returned, the exception raised or the exit.
PDFReader_extraer_texto(l, doc, disp) ==
  Terminado(Intentar(l, doc, disp, Respaldos, <<>>),
            IF disp = {} THEN Exit(1) ELSE Exception)

\* Variant: the exception of extraer_texto when every method failed.
extraer_texto_con_fallback_sin_vacio(l, doc, disp) ==
  Terminado(Intentar(l, doc, disp, metodos, <<>>), Exception)

\* PDFReader.extraer_texto_con_fallback
extraer_texto_con_fallback(l, doc, disp) ==
  Terminado(Intentar(l, doc, disp, metodos, <<>>), Str(<<>>))

\* PDFReader.obtener_texto_pagina
obtener_texto_pagina(l, num_pagina) ==
  IF 0 <= num_pagina /\ num_pagina < Len(l.texto_por_pagina)
  THEN Str(l.texto_por_pagina[num_pagina + 1])
  ELSE None

\* if not self.texto_completo: self.extraer_texto()
ConTextoCompleto(l, doc, disp) ==
  IF l.texto_completo = <<>> THEN PDFReader_extraer_texto(l, doc, disp)
  ELSE [lector |-> l, invocados |-> <<>>, r |-> None]

Init ==
  /\ familia \in Familias
  /\ entrada \in {"main", "DataExtractor"}
  /\ entregado \in Textos \cup MuestrasDe(familia)
  /\ texto = <<>>
  /\ datos = DictVacio
  /\ resultado = DictVacio
  /\ conceptos = <<>>
  /\ tiers = <<>>
  /\ corrio = <<>>
  /\ pc = IF entrada = "main" THEN "__main__" ELSE "__init__"
  /\ salida = -1
  /\ archivo \in IF entrada = "main" /\ entregado = <<>>
             THEN {"ausente", "presente"} ELSE {"presente"}
  /\ hojas = <<>>
  /\ guardado = 0
  /\ anteriores = <<>>
  /\ argv \in IF entrada = "main" /\ familia = "aire"
            THEN Argumentos ELSE {SinArgumentos}
  /\ dependencias \in IF entrada = "main" /\ entregado = <<>>
                    THEN {"completas", "faltantes"} ELSE {"completas"}
  /\ globales = <<>>
  /\ abierto = Ninguno
  /\ archivo_salida = Ninguno
  /\ salvado = Ninguno
  /\ disponibles = {"pdfplumber", "pypdf", "PyPDF2"}
  /\ documento = DocumentoLegible
  /\ lector = LectorNuevo
  /\ invocados = <<>>
  /\ retorno = SinRetorno
  /\ devuelto = <<>>
  /\ extracciones = 0

\* PDFReader.extraer_texto: the text of the first backend that yields
\* one, and an exception when none does.
extraer_texto(pdf) == IF pdf = <<>> THEN Err ELSE Ok(pdf)

\* The __main__ block: the options are read, the dependencies are
\* validated and main() is called.  The ESSA block reads no option.
Principal ==
  /\ pc = "__main__"
  /\ IF familia = "aire" /\ argv # SinArgumentos /\ argv.ayuda
     THEN pc' = "fin" /\ salida' = 0 /\ globales' = globales
     ELSE /\ globales' =
               IF familia = "aire" /\ argv # SinArgumentos
               THEN [pdf_path |-> procesar_argumentos(argv).pdf,
                     output_excel |-> procesar_argumentos(argv).output]
               ELSE globales
          /\ IF dependencias = "faltantes"
             THEN pc' = "fin" /\ salida' = 1
             ELSE pc' = "main" /\ salida' = salida
  /\ UNCHANGED <<familia, entrada, entregado, texto, datos, resultado,
                 conceptos, tiers, corrio>>
  /\ UNCHANGED libro
  /\ UNCHANGED <<anteriores, argv, dependencias, abierto, archivo_salida,
                 salvado, lectura>>

\* main(), up to the construction of the extractor: the file at pdf_path
\* must exist and yield some text.
MainLeerPDF ==
  /\ pc = "main"
  /\ abierto' = IF archivo = "ausente" THEN abierto
                ELSE Configuracion(familia).pdf_path
  /\ LET texto_completo == extraer_texto(entregado)
     IN IF archivo = "ausente" \/ texto_completo.exc \/ texto_completo.v = <<>>
        THEN pc' = "fin" /\ salida' = 1
        ELSE pc' = "__init__" /\ salida' = salida
  /\ UNCHANGED <<familia, entrada, entregado, texto, datos, resultado,
                 conceptos, tiers, corrio>>
  /\ UNCHANGED libro
  /\ UNCHANGED <<anteriores, comandos, archivo_salida, salvado, lectura>>

\* DataExtractor.__init__
Construir ==
  /\ pc = "__init__"
  /\ texto' = entregado
  /\ datos' = DictVacio
  /\ resultado' = DictVacio
  /\ pc' = Secciones(familia)[1]
  /\ UNCHANGED <<familia, entrada, entregado, conceptos, tiers, corrio, salida>>
  /\ UNCHANGED libro
  /\ UNCHANGED otras

\* One entry `seccion: self.extraer_...()` of the dict display, r being
\* the outcome of the call.
Entrada(seccion, r) ==
  /\ pc = seccion
  /\ IF r.exc
     THEN pc' = "excepcion" /\ resultado' = resultado
     ELSE pc' = Siguiente(familia, seccion)
          /\ resultado' = Poner(resultado, seccion, r.v)
  /\ UNCHANGED <<familia, entrada, entregado, texto, datos, conceptos, tiers,
                 corrio, salida>>
  /\ UNCHANGED libro
  /\ UNCHANGED otras

ExtraerInformacionGeneral ==
  Entrada("informacion_general",
          IF familia = "essa" THEN essa_extraer_informacion_general(texto)
          ELSE aire_extraer_informacion_general(texto))

ExtraerDatosComercializador ==
  /\ familia = "essa"
  /\ Entrada("datos_comercializador", essa_extraer_datos_comercializador(texto))

ExtraerDatosCliente ==
  Entrada("datos_cliente",
          IF familia = "essa" THEN essa_extraer_datos_cliente(texto)
          ELSE aire_extraer_datos_cliente(texto))

ExtraerDatosOperador ==
  /\ familia = "aire"
  /\ Entrada("datos_operador", aire_extraer_datos_operador(texto))

ExtraerPeriodoFacturacion ==
  Entrada("periodo_facturacion",
          IF familia = "essa" THEN essa_extraer_periodo_facturacion(texto)
          ELSE aire_extraer_periodo_facturacion(texto))

\* One tier at position desde, r being its outcome on the list the earlier
\* tiers left; a raised exception leaves the method.
PasoTier(desde, t, r, hacia) ==
  /\ pc = desde
  /\ IF r.exc
     THEN pc' = "excepcion" /\ UNCHANGED <<conceptos, tiers, corrio>>
     ELSE /\ pc' = hacia
          /\ conceptos' = r.v
          /\ tiers' = Append(tiers, r.v)
          /\ corrio' = IF r.corrio THEN Append(corrio, t) ELSE corrio
  /\ UNCHANGED <<familia, entrada, entregado, texto, datos, salida>>
  /\ UNCHANGED libro
  /\ UNCHANGED otras

\* Variant: the list of tier a begins with the items an earlier call left.
ConceptosTierASobreAnteriores ==
  /\ PasoTier("conceptos_facturados", "a",
              IF familia = "essa" THEN essa_tier_a(texto, conceptos)
              ELSE aire_tier_a(texto, conceptos),
              "tier_b")
  /\ UNCHANGED resultado

\* conceptos = [], then the header-bounded scan
ConceptosTierA ==
  /\ PasoTier("conceptos_facturados", "a",
              IF familia = "essa" THEN essa_tier_a(texto, <<>>)
              ELSE aire_tier_a(texto, <<>>),
              "tier_b")
  /\ UNCHANGED resultado

\* if not conceptos: the whole-text scan
ConceptosTierB ==
  /\ PasoTier("tier_b", "b",
              IF familia = "essa" THEN essa_tier_b(texto, conceptos)
              ELSE aire_tier_b(texto, conceptos),
              "tier_c")
  /\ UNCHANGED resultado

\* if not conceptos: the known LineItems; return conceptos
ConceptosTierC ==
  /\ PasoTier("tier_c", "c",
              IF familia = "essa" THEN essa_tier_c(texto, conceptos)
              ELSE aire_tier_c(texto, conceptos),
              Siguiente(familia, "conceptos_facturados"))
  /\ resultado' = IF pc' = "excepcion" THEN resultado
                  ELSE Poner(resultado, "conceptos_facturados", conceptos')

ExtraerInformacionPago ==
  Entrada("informacion_pago",
          IF familia = "essa" THEN essa_extraer_informacion_pago(texto)
          ELSE aire_extraer_informacion_pago(texto))

ExtraerDatosTecnicos ==
  Entrada("datos_tecnicos",
          IF familia = "essa" THEN essa_extraer_datos_tecnicos(texto)
          ELSE aire_extraer_datos_tecnicos(texto))

ExtraerInformacionRecaudo ==
  /\ familia = "essa"
  /\ Entrada("informacion_recaudo", essa_extraer_informacion_recaudo(texto))

ExtraerTotales ==
  Entrada("totales",
          IF familia = "essa" THEN essa_extraer_totales(texto)
          ELSE aire_extraer_totales(texto))

ExtraerCodigosBarras ==
  Entrada("codigos_barras",
          IF familia = "essa" THEN essa_extraer_codigos_barras(texto)
          ELSE aire_extraer_codigos_barras(texto))

\* self.datos = {...}; return self.datos
Retornar ==
  /\ pc = "retornar"
  /\ datos' = resultado
  /\ pc' = "retornado"
  /\ UNCHANGED <<familia, entrada, entregado, texto, resultado, conceptos,
                 tiers, corrio, salida>>
  /\ UNCHANGED libro
  /\ UNCHANGED otras

\* main(): except Exception: ... sys.exit(1)
MainExcepcion ==
  /\ pc = "excepcion"
  /\ entrada = "main"
  /\ pc' = "fin"
  /\ salida' = 1
  /\ UNCHANGED <<familia, entrada, entregado, texto, datos, resultado,
                 conceptos, tiers, corrio>>
  /\ UNCHANGED libro
  /\ UNCHANGED otras

(***************************************************************************)
(* ExcelWriter of src/air-e/excel_writer.py: the workbook is the list of   *)
(* its sheets, each with its title and the number of data rows written.    *)
(***************************************************************************)
\* Variant of the test of a section: the key alone, empty or not.
EnDatos(d, seccion) == seccion \in DOMAIN d

\* 'seccion' in datos and datos['seccion']
ConDatos(d, seccion) == seccion \in DOMAIN d /\ d[seccion] # <<>>

\* The conditional sheets of escribir_datos in its order: the section key
\* and the title given to create_sheet.
HojasDeSeccion ==
  << <<"informacion_general", "Información General">>,
     <<"conceptos_facturados", "Conceptos Facturados">>,
     <<"datos_cliente", "Datos Cliente">>,
     <<"datos_operador", "Operador de Red">>,
     <<"periodo_facturacion", "Periodo Facturación">>,
     <<"informacion_pago", "Información de Pago">> >>

Hoja(titulo, filas) == [titulo |-> titulo, filas |-> filas]

\* if seccion in datos: ... if clave in datos[seccion]: info_clave.append
Presentes(d, seccion, claves) ==
  IF seccion \in DOMAIN d
  THEN Cardinality({c \in claves : c \in DOMAIN d[seccion]})
  ELSE 0

\* The rows of "Resumen": the key fields present, then one row for every
\* category that holds something.
FilasResumen(d) ==
  Presentes(d, "informacion_general",
            {"nic", "documento_equivalente", "total_pagar"})
  + Presentes(d, "datos_cliente", {"nombre", "nit"})
  + Presentes(d, "periodo_facturacion",
              {"fecha_vencimiento", "periodo_facturado"})
  + Cardinality({k \in DOMAIN d : d[k] # <<>>})

\* The rows of the sheet of one section: one for every field, or one for
\* every LineItem and the row of the total.
FilasSeccion(seccion, valores) ==
  IF seccion = "conceptos_facturados" THEN Len(valores) + 1
  ELSE Cardinality(DOMAIN valores)

\* for item in valores: for campo, valor in item.items(): fila += 1
RECURSIVE FilasLista(_)
FilasLista(valores) ==
  IF valores = <<>> THEN 0
  ELSE Cardinality(DOMAIN Head(valores)) + FilasLista(Tail(valores))

\* for categoria, valores in datos.items(): if valores: ...
RECURSIVE FilasDatosCompletos(_, _)
FilasDatosCompletos(d, categorias) ==
  IF categorias = <<>> THEN 0
  ELSE (IF ~ConDatos(d, Head(categorias)) THEN 0
        ELSE IF Head(categorias) = "conceptos_facturados"
        THEN FilasLista(d[Head(categorias)])
        ELSE Cardinality(DOMAIN d[Head(categorias)]))
       + FilasDatosCompletos(d, Tail(categorias))

\* main(): writer = ExcelWriter(output_excel), whose Workbook() holds the
\* default sheet; writer.escribir_datos(datos_extraidos) is entered.
MainEscribir ==
  /\ pc = "retornado"
  /\ entrada = "main"
  /\ familia = "aire"
  /\ archivo_salida' = Configuracion(familia).output_excel
  /\ hojas' = <<Hoja("Sheet", 0)>>
  /\ pc' = "escribir_datos"
  /\ UNCHANGED <<familia, entrada, entregado, texto, datos, resultado,
                 conceptos, tiers, corrio, salida, archivo, guardado>>
  /\ UNCHANGED <<anteriores, comandos, abierto, salvado, lectura>>

\* escribir_datos: self.workbook.remove(self.workbook.active)
EscribirDatos ==
  /\ pc = "escribir_datos"
  /\ hojas' = Tail(hojas)
  /\ pc' = "hoja_resumen"
  /\ UNCHANGED <<familia, entrada, entregado, texto, datos, resultado,
                 conceptos, tiers, corrio, salida, archivo, guardado>>
  /\ UNCHANGED otras

\* Variant of the step of "Resumen": the workbook is saved after it too.
CrearHojaResumenYGuardar ==
  /\ pc = "hoja_resumen"
  /\ hojas' = Append(hojas, Hoja("Resumen", FilasResumen(datos)))
  /\ guardado' = guardado + 1
  /\ pc' = "hoja_" \o HojasDeSeccion[1][1]
  /\ UNCHANGED <<familia, entrada, entregado, texto, datos, resultado,
                 conceptos, tiers, corrio, salida, archivo>>
  /\ UNCHANGED otras

\* self._crear_hoja_resumen(datos)
CrearHojaResumen ==
  /\ pc = "hoja_resumen"
  /\ hojas' = Append(hojas, Hoja("Resumen", FilasResumen(datos)))
  /\ pc' = "hoja_" \o HojasDeSeccion[1][1]
  /\ UNCHANGED <<familia, entrada, entregado, texto, datos, resultado,
                 conceptos, tiers, corrio, salida, archivo, guardado>>
  /\ UNCHANGED otras

\* One of the six `if seccion in datos and datos[seccion]:
\* self._crear_hoja_...(datos[seccion])` of escribir_datos.
CrearHojaSeccion ==
  \E i \in DOMAIN HojasDeSeccion :
    /\ pc = "hoja_" \o HojasDeSeccion[i][1]
    /\ hojas' = IF ConDatos(datos, HojasDeSeccion[i][1])
                THEN Append(hojas,
                       Hoja(HojasDeSeccion[i][2],
                            FilasSeccion(HojasDeSeccion[i][1],
                                         datos[HojasDeSeccion[i][1]])))
                ELSE hojas
    /\ pc' = IF i = Len(HojasDeSeccion) THEN "hoja_datos_completos"
             ELSE "hoja_" \o HojasDeSeccion[i + 1][1]
    /\ UNCHANGED <<familia, entrada, entregado, texto, datos, resultado,
                   conceptos, tiers, corrio, salida, archivo, guardado>>
  /\ UNCHANGED otras

\* self._crear_hoja_datos_completos(datos)
CrearHojaDatosCompletos ==
  /\ pc = "hoja_datos_completos"
  /\ hojas' = Append(hojas,
                Hoja("Datos Completos",
                     FilasDatosCompletos(datos, Secciones("aire"))))
  /\ pc' = "guardar"
  /\ UNCHANGED <<familia, entrada, entregado, texto, datos, resultado,
                 conceptos, tiers, corrio, salida, archivo, guardado>>
  /\ UNCHANGED otras

\* self.workbook.save(self.archivo_salida)
Guardar ==
  /\ pc = "guardar"
  /\ guardado' = guardado + 1
  /\ salvado' = archivo_salida
  /\ pc' = "escrito"
  /\ UNCHANGED <<familia, entrada, entregado, texto, datos, resultado,
                 conceptos, tiers, corrio, salida, archivo, hojas>>
  /\ UNCHANGED <<anteriores, comandos, abierto, archivo_salida, lectura>>

\* main(), after the workbook is written: the closing report.
MainFin ==
  /\ pc = "escrito"
  /\ entrada = "main"
  /\ pc' = "fin"
  /\ salida' = 0
  /\ UNCHANGED <<familia, entrada, entregado, texto, datos, resultado,
                 conceptos, tiers, corrio, archivo, hojas, guardado>>
  /\ UNCHANGED otras

\* extraer_todos_los_datos() is called once more on the extractor.
OtraLlamada ==
  /\ pc = "retornado"
  /\ entrada = "DataExtractor"
  /\ Len(anteriores) < MaxLlamadas
  /\ anteriores' = Append(anteriores, datos)
  /\ resultado' = DictVacio
  /\ tiers' = <<>>
  /\ corrio' = <<>>
  /\ pc' = Secciones(familia)[1]
  /\ UNCHANGED <<familia, entrada, entregado, texto, datos, conceptos, salida>>
  /\ UNCHANGED libro
  /\ UNCHANGED <<comandos, abierto, archivo_salida, salvado, lectura>>

\* One more extractor is constructed from the same text, and its
\* extraer_todos_los_datos() is called.
OtroExtractor ==
  /\ pc = "retornado"
  /\ entrada = "DataExtractor"
  /\ Len(anteriores) < MaxLlamadas
  /\ anteriores' = Append(anteriores, datos)
  /\ texto' = entregado
  /\ datos' = DictVacio
  /\ resultado' = DictVacio
  /\ tiers' = <<>>
  /\ corrio' = <<>>
  /\ pc' = Secciones(familia)[1]
  /\ UNCHANGED <<familia, entrada, entregado, conceptos, salida>>
  /\ UNCHANGED libro
  /\ UNCHANGED <<comandos, abierto, archivo_salida, salvado, lectura>>

Next ==
  \/ Principal
  \/ MainLeerPDF
  \/ Construir
  \/ ExtraerInformacionGeneral
  \/ ExtraerDatosComercializador
  \/ ExtraerDatosCliente
  \/ ExtraerDatosOperador
  \/ ExtraerPeriodoFacturacion
  \/ ConceptosTierA
  \/ ConceptosTierB
  \/ ConceptosTierC
  \/ ExtraerInformacionPago
  \/ ExtraerDatosTecnicos
  \/ ExtraerInformacionRecaudo
  \/ ExtraerTotales
  \/ ExtraerCodigosBarras
  \/ Retornar
  \/ OtraLlamada
  \/ OtroExtractor
  \/ MainExcepcion
  \/ MainEscribir
  \/ EscribirDatos
  \/ CrearHojaResumen
  \/ CrearHojaSeccion
  \/ CrearHojaDatosCompletos
  \/ Guardar
  \/ MainFin

Spec == Init /\ [][Next]_vars

(***************************************************************************)
(* The claims.                                                             *)
(***************************************************************************)
\* A section is empty when it holds no field (dict) and no LineItem (list).
SeccionVacia(s) == s = <<>>

\* C1: for both families, extraer_todos_los_datos() on the empty text
\* returns without raising, and every section of what it returns is empty
\* or absent: no scalar field and no LineItem in any section.
C1_TextoVacioSinDatos ==
  texto = <<>> /\ pc \notin {"__main__", "main", "__init__", "fin"}
  => /\ pc # "excepcion"
     /\ pc = "retornado" => \A s \in DOMAIN datos : SeccionVacia(datos[s])
\* C2: a matched numeric capture that float() rejects costs only its own
\* field: extraer_todos_los_datos() is never left by an exception, so that
\* every run that began reaches its return with the other fields.
C2_CapturaRechazadaNoAborta == pc # "excepcion"

\* The patterns whose match puts key k into section s of the ESSA result:
\* two when a second rule fills the key that the first one left absent.
essa_reglas ==
  [informacion_general |->
     [numero_factura |-> <<essa_patron.factura>>,
      cufe |-> <<essa_patron.cufe>>,
      resolucion_dian |-> <<essa_patron.resolucion>>,
      fecha_resolucion |-> <<essa_patron.resolucion>>,
      rango_desde |-> <<essa_patron.rango>>,
      rango_hasta |-> <<essa_patron.rango>>,
      total_pagar |-> <<essa_patron.total>>],
   datos_comercializador |->
     [nombre |-> <<essa_patron.nombre>>,
      nit |-> <<essa_patron.nit>>,
      direccion |-> <<essa_patron.direccion>>,
      municipio |-> <<essa_patron.municipio>>,
      telefono |-> <<essa_patron.telefono>>],
   datos_cliente |->
     [codigo_cuenta_niu |-> <<essa_patron.niu, essa_patron.niu_alt>>],
   periodo_facturacion |->
     [fecha_desde |-> <<essa_patron.periodo>>,
      fecha_hasta |-> <<essa_patron.periodo>>,
      fecha_hora_generacion |-> <<essa_patron.generacion>>,
      fecha_vencimiento |-> <<essa_patron.vencimiento>>,
      forma_pago |-> <<essa_patron.forma_pago>>],
   informacion_pago |->
     [valor_reclamacion |-> <<essa_patron.reclamacion>>,
      valor_congelado |-> <<essa_patron.congelado>>,
      total_lineas |-> <<essa_patron.lineas>>],
   datos_tecnicos |->
     [sistema |-> <<essa_patron.sistema>>,
      actsis_nit |-> <<essa_patron.actsis>>,
      emails |-> <<essa_patron.email>>],
   informacion_recaudo |->
     [numero_cuenta |-> <<essa_patron.cuenta>>,
      banco |-> <<essa_patron.cuenta>>,
      correos_recaudo |-> <<essa_patron.correos>>,
      telefono_contacto |-> <<essa_patron.tel_contacto>>,
      extension |-> <<essa_patron.tel_contacto>>],
   totales |->
     [valores_encontrados |-> <<essa_patron.valores>>,
      valor_maximo |-> <<essa_patron.valores>>,
      valor_minimo |-> <<essa_patron.valores>>,
      promedio_valores |-> <<essa_patron.valores>>],
   codigos_barras |->
     [codigo_415 |-> <<essa_patron.codigo, essa_patron.codigo_final>>,
      codigo_8020 |-> <<essa_patron.codigo, essa_patron.codigo_final>>,
      codigo_3900 |-> <<essa_patron.codigo, essa_patron.codigo_final>>,
      codigo_96 |-> <<essa_patron.codigo, essa_patron.codigo_final>>]]

\* The same for the Air-e result.
aire_reglas ==
  [informacion_general |->
     [nic |-> <<aire_patron.nic>>,
      documento_equivalente |-> <<aire_patron.doc>>,
      id_cobros |-> <<aire_patron.id_cobros>>,
      total_pagar |-> <<aire_patron.total>>,
      periodo_facturado_hasta |-> <<aire_patron.periodo_fact>>,
      peaje_nivel |-> <<aire_patron.uso_general>>],
   datos_cliente |->
     [nombre |-> <<aire_patron.cliente, aire_patron.cliente_alt>>,
      nit |-> <<aire_patron.nit_cliente>>,
      direccion |-> <<aire_patron.direccion>>,
      direccion_planta |-> <<aire_patron.planta>>,
      municipio |-> <<aire_patron.municipio>>,
      departamento |-> <<aire_patron.depto>>,
      contrato |-> <<aire_patron.contrato>>,
      uso_peaje_nivel |-> <<aire_patron.uso_cliente>>,
      nivel_tension |-> <<aire_patron.tension>>],
   datos_operador |->
     [nombre |-> <<aire_patron.operador>>,
      nit |-> <<aire_patron.nit_operador>>,
      linea_115 |-> <<aire_patron.linea115>>,
      linea_gratuita |-> <<aire_patron.linea_gratuita>>,
      linea_fija |-> <<aire_patron.linea_fija>>,
      direccion |-> <<aire_patron.dir_operador>>,
      pbx |-> <<aire_patron.pbx>>,
      website |-> <<aire_patron.web>>],
   periodo_facturacion |->
     [periodo_facturado |-> <<aire_patron.periodo>>,
      fecha_emision |-> <<aire_patron.emision, aire_patron.fecha_alt>>,
      fecha_ciudad |-> <<aire_patron.ciudad_fecha>>,
      fecha_vencimiento |-> <<aire_patron.vencimiento>>,
      dias_facturados |-> <<aire_patron.dias>>],
   informacion_pago |->
     [subtotal_energia |-> <<aire_patron.subtotal>>,
      deuda_anterior |-> <<aire_patron.deuda>>,
      facturacion_mensual |-> <<aire_patron.mensual>>,
      saldo_actual |-> <<aire_patron.saldo>>,
      tasa_interes_mora |-> <<aire_patron.interes>>,
      id_cobro |-> <<aire_patron.id_cobro>>],
   datos_tecnicos |->
     [sistema |-> <<aire_patron.sistema>>,
      nit_sistema |-> <<aire_patron.nit_sistema>>,
      software |-> <<aire_patron.software>>,
      cuenta_bancaria |-> <<aire_patron.banco>>,
      banco |-> <<aire_patron.banco>>,
      fiduciaria_fid |-> <<aire_patron.fiduciaria>>],
   totales |->
     [total_pagar_mes |-> <<aire_patron.total_pagar>>,
      total_general |-> <<aire_patron.total_general>>,
      valores_encontrados |-> <<aire_patron.valores_totales>>,
      valor_maximo |-> <<aire_patron.valores_totales>>,
      valor_minimo |-> <<aire_patron.valores_totales>>,
      promedio_valores |-> <<aire_patron.valores_totales>>],
   codigos_barras |->
     [codigo_415_completo |-> <<aire_patron.codigo_completo>>,
      codigo_8020_completo |-> <<aire_patron.codigo_completo>>,
      codigo_3900_completo |-> <<aire_patron.codigo_completo>>,
      codigo_96_completo |-> <<aire_patron.codigo_completo>>,
      tiene_codigo_barras |-> <<aire_patron.barcode>>]]

\* The rules of key k of section s; a key outside the tables is a
\* codigo_<prefijo> of the loop over the bar-code pairs.
ReglasDe(f, s, k) ==
  IF f = "essa"
  THEN IF k \in DOMAIN essa_reglas[s] THEN essa_reglas[s][k]
       ELSE <<essa_patron.codigo>>
  ELSE IF k \in DOMAIN aire_reglas[s] THEN aire_reglas[s][k]
       ELSE <<aire_patron.codigo>>

\* The patterns of section s whose captures go through float().
Convierten(f, s) ==
  IF f = "essa"
  THEN CASE s = "informacion_general" -> <<essa_patron.total>>
         [] s = "conceptos_facturados" ->
              <<essa_patron.tabla, essa_patron.concepto_alt>>
              \o [i \in DOMAIN essa_conceptos_conocidos |->
                    essa_patron_especifico(essa_conceptos_conocidos[i][1],
                                           essa_conceptos_conocidos[i][2],
                                           essa_conceptos_conocidos[i][3])]
         [] s = "informacion_pago" ->
              <<essa_patron.reclamacion, essa_patron.congelado>>
         [] s = "totales" -> <<essa_patron.valores>>
         [] OTHER -> <<>>
  ELSE CASE s = "informacion_general" -> <<aire_patron.total>>
         [] s = "conceptos_facturados" ->
              <<aire_patron.peaje, aire_patron.penalizacion,
                aire_patron.ajuste, aire_patron.cprog>>
         [] s = "informacion_pago" ->
              <<aire_patron.subtotal, aire_patron.deuda, aire_patron.mensual,
                aire_patron.saldo>>
         [] s = "totales" -> <<aire_patron.total_pagar>>
         [] OTHER -> <<>>

\* Some pattern of the list ps matches the text.
AlgunaCoincide(ps, txt) == \E i \in DOMAIN ps : re_search(ps[i], txt).ok

\* The section whose entry of the dict display is being evaluated.
SeccionEnCurso == Secciones(familia)[Cardinality(DOMAIN resultado) + 1]

\* C3: a rule whose pattern has no match raises nothing and leaves its key
\* absent: a key is in a section only if a rule that populates it matched
\* the text, and a section raises only if one of its converting rules
\* matched.
C3_ClaveSoloSiCoincide ==
  /\ \A s \in DOMAIN resultado \ {"conceptos_facturados"} :
       \A k \in DOMAIN resultado[s] :
         AlgunaCoincide(ReglasDe(familia, s, k), texto)
  /\ pc = "excepcion" =>
       AlgunaCoincide(Convierten(familia, SeccionEnCurso), texto)

\* An Air-e text with a NIC and no equivalent document: the first key is
\* returned and the second is absent.
C3_UnaClaveSiOtraNo ==
  /\ familia = "aire"
  /\ pc = "retornado"
  /\ texto = Fragmentos[9]
  /\ "nic" \in DOMAIN datos.informacion_general
  /\ "documento_equivalente" \notin DOMAIN datos.informacion_general

\* C4: an empty text is never processed by the extractor: once the run has
\* left its entry point, it has ended with the fatal exit status and no
\* section was extracted.
C4_TextoVacioRechazado ==
  entregado = <<>> /\ pc \notin {"__main__", "main", "__init__"}
  => pc = "fin" /\ salida = 1 /\ resultado = DictVacio

\* The position of a tier in the order a, b, c.
OrdenTier(t) == CASE t = "a" -> 1 [] t = "b" -> 2 [] t = "c" -> 3

\* C5: the tiers run in the order a, b, c; b runs only if a left no
\* LineItem and c only if a and b left none; once a tier has left some
\* LineItem the later tiers add, remove and change nothing, and the list
\* returned is the one the last tier left.
C5_TiersEnOrden ==
  /\ Len(tiers) <= 3
  /\ \A i, j \in DOMAIN corrio :
       i < j => OrdenTier(corrio[i]) < OrdenTier(corrio[j])
  /\ \A i \in DOMAIN corrio :
       \A n \in 1..(OrdenTier(corrio[i]) - 1) :
         n <= Len(tiers) /\ tiers[n] = <<>>
  /\ \A n \in DOMAIN tiers :
       \A m \in DOMAIN tiers : n < m /\ tiers[n] # <<>> => tiers[m] = tiers[n]
  /\ "conceptos_facturados" \in DOMAIN resultado
       => Len(tiers) = 3 /\ resultado.conceptos_facturados = tiers[3]

\* The ESSA table read by tier a: tiers b and c leave its LineItem alone.
C5_TierABasta ==
  /\ familia = "essa"
  /\ texto = DocTablaEssa
  /\ pc = "retornado"
  /\ corrio = <<"a">>
  /\ Len(tiers[1]) = 1
  /\ datos.conceptos_facturados = tiers[1]
\* The predefined LineItems of the ESSA known document, as tier c returns
\* them for a text that holds none of their lines.
essa_conceptos_literales ==
  << [numero |-> 1, codigo |-> <<"6", "7", "2">>, concepto |-> <<"C", "P",
      "R", "O", "G">>,
      unidad |-> <<"P", "e", "s", "o">>, valor_unidad |-> Monto(<<"7", "9",
          "0", "5", "9", "5", "1", "2">>, <<>>),
      cantidad |-> Monto(<<"1">>, <<>>), iva |-> Monto(<<>>, <<>>),
      saldo |-> Monto(<<>>, <<>>), valor_mes |-> Monto(<<"7", "9", "0", "5",
          "9", "5", "1", "2">>, <<>>)],
     [numero |-> 2, codigo |-> <<"3", "8", "4">>, concepto |-> <<"P", "E",
         "A", "J", "E", " ", "A", "C", "T", "I", "V", "A">>,
      unidad |-> <<"K", "W", "H">>, valor_unidad |-> Monto(<<"1", "1">>, <<
          "5", "3", "7", "7">>),
      cantidad |-> Monto(<<"3", "6", "3", "8", "0", "0", "2"
          >>, <<>>), iva |-> Monto(<<>>, <<>>),
      saldo |-> Monto(<<>>, <<>>), valor_mes |-> Monto(<<"4", "1", "9", "7",
          "4", "0", "2", "0">>, <<>>)],
     [numero |-> 3, codigo |-> <<"6", "3", "6">>, concepto |-> <<"P", "E",
         "A", "J", "E", " ", "I", "N", "D", "U", "C", "T", "I", "V", "A", " ",
         "F", "A">>,
      unidad |-> <<"K", "5">>, valor_unidad |-> Monto(<<"7", "3", "4", "2",
          "2", "8", "2">>, <<>>),
      cantidad |-> Monto(<<"1">>, <<>>), iva |-> Monto(<<>>, <<>>),
      saldo |-> Monto(<<>>, <<>>), valor_mes |-> Monto(<<"7", "3", "4", "2",
          "2", "8", "2">>, <<>>)],
     [numero |-> 4, codigo |-> <<"4", "9", "9">>, concepto |-> <<"A", "D",
         "D", " ", "C", "E", "N", "T", "R", "O">>,
      unidad |-> <<"P", "e", "s", "o">>, valor_unidad |-> Monto(<<"3", "9",
          "1", "2", "5", "0">>, <<>>),
      cantidad |-> Monto(<<"1">>, <<>>), iva |-> Monto(<<>>, <<>>),
      saldo |-> Monto(<<>>, <<>>), valor_mes |-> Monto(<<"3", "9", "1", "2",
          "5", "0">>, <<>>)] >>

ConceptosLiterales(f) ==
  IF f = "essa" THEN essa_conceptos_literales ELSE aire_conceptos_conocidos

\* Tiers a and b both left no LineItem and tier c has returned.
SoloTierC == Len(tiers) = 3 /\ tiers[1] = <<>> /\ tiers[2] = <<>>

\* C6 as stated: when tiers a and b yield no LineItem the section is
\* exactly the fixed literal set, whatever the text.
C6_TierCLiteral == SoloTierC => tiers[3] = ConceptosLiterales(familia)

\* The five amounts of LineItem c are the captures of the match m in txt.
MontosDelTexto(c, txt, m) ==
  /\ c.valor_unidad = float_(Quitar(group(txt, m, 1), ",")).v
  /\ c.cantidad = float_(Quitar(group(txt, m, 2), ",")).v
  /\ c.iva = float_(group(txt, m, 3)).v
  /\ c.saldo = float_(group(txt, m, 4)).v
  /\ c.valor_mes = float_(Quitar(group(txt, m, 5), ",")).v

\* LineItem c is the known LineItem l: l itself when the text has no line
\* of l, and l with the amounts of that line otherwise.
ConocidoOLeido(c, l, txt, m) ==
  /\ c.numero = l.numero /\ c.codigo = l.codigo
  /\ c.concepto = l.concepto /\ c.unidad = l.unidad
  /\ IF m.ok THEN MontosDelTexto(c, txt, m) ELSE c = l

\* C6, amended: when tiers a and b yield no LineItem the section is the
\* four known LineItems; in the Air-e family with their literal values for
\* every text, in the ESSA family each with its literal amounts unless the
\* text holds the line of that LineItem, whose amounts are then returned.
C6_TierCConocidos ==
  SoloTierC =>
    IF familia = "aire" THEN tiers[3] = aire_conceptos_conocidos
    ELSE /\ Len(tiers[3]) = Len(essa_conceptos_literales)
         /\ \A i \in DOMAIN essa_conceptos_literales :
              ConocidoOLeido(tiers[3][i], essa_conceptos_literales[i], texto,
                re_search(essa_patron_especifico(
                            essa_conceptos_literales[i].codigo,
                            essa_conceptos_literales[i].concepto,
                            essa_conceptos_literales[i].unidad), texto))

\* An ESSA text with the line of CPROG and no table: tier c returns the
\* amount 5 of the line where the literal is 79059512.
C6_MontoLeidoDelTexto ==
  /\ familia = "essa"
  /\ texto = Fragmentos[6]
  /\ pc = "retornado"
  /\ SoloTierC
  /\ datos.conceptos_facturados[1].valor_mes = Monto(<<"5">>, <<>>)
  /\ datos.conceptos_facturados[2] = essa_conceptos_literales[2]

\* The call self.extraer_<s>() of family f on the text txt.
extraer(f, s, txt) ==
  IF f = "essa"
  THEN CASE s = "informacion_general" -> essa_extraer_informacion_general(txt)
         [] s = "datos_comercializador" ->
              essa_extraer_datos_comercializador(txt)
         [] s = "datos_cliente" -> essa_extraer_datos_cliente(txt)
         [] s = "periodo_facturacion" -> essa_extraer_periodo_facturacion(txt)
         [] s = "conceptos_facturados" ->
              essa_extraer_conceptos_facturados(txt)
         [] s = "informacion_pago" -> essa_extraer_informacion_pago(txt)
         [] s = "datos_tecnicos" -> essa_extraer_datos_tecnicos(txt)
         [] s = "informacion_recaudo" -> essa_extraer_informacion_recaudo(txt)
         [] s = "totales" -> essa_extraer_totales(txt)
         [] s = "codigos_barras" -> essa_extraer_codigos_barras(txt)
  ELSE CASE s = "informacion_general" -> aire_extraer_informacion_general(txt)
         [] s = "datos_cliente" -> aire_extraer_datos_cliente(txt)
         [] s = "datos_operador" -> aire_extraer_datos_operador(txt)
         [] s = "periodo_facturacion" -> aire_extraer_periodo_facturacion(txt)
         [] s = "conceptos_facturados" ->
              aire_extraer_conceptos_facturados(txt)
         [] s = "informacion_pago" -> aire_extraer_informacion_pago(txt)
         [] s = "datos_tecnicos" -> aire_extraer_datos_tecnicos(txt)
         [] s = "totales" -> aire_extraer_totales(txt)
         [] s = "codigos_barras" -> aire_extraer_codigos_barras(txt)

\* DataExtractor(txt).extraer_todos_los_datos() as one call.
extraer_todos_los_datos(f, txt) ==
  Convertidos([i \in DOMAIN Secciones(f) |-> extraer(f, Secciones(f)[i], txt)],
              LAMBDA r : [s \in {Secciones(f)[i] : i \in DOMAIN Secciones(f)} |->
                            r[CHOOSE i \in DOMAIN Secciones(f) :
                                Secciones(f)[i] = s]])

\* The LineItems that tiers a and b find in txt.
ConceptosAB(f, txt) ==
  IF f = "essa"
  THEN Luego(essa_tier_a(txt, <<>>), LAMBDA c : essa_tier_b(txt, c))
  ELSE Luego(aire_tier_a(txt, <<>>), LAMBDA c : aire_tier_b(txt, c))

\* txt is a text whose LineItems are read from it by tier a or b.
LeidosDelTexto(f, txt) == LET ab == ConceptosAB(f, txt)
                          IN ~ab.exc /\ ab.v # <<>>

\* C7: a result whose LineItems came from tier c is flagged: it differs
\* from the result of every document whose LineItems tier a or b read.
C7_TierCSenalado ==
  pc = "retornado" /\ SoloTierC
  => \A d \in Documentos :
       LeidosDelTexto(familia, d)
         => extraer_todos_los_datos(familia, d) # Ok(datos)

\* C8: a section that yielded no field is no key of the result: every
\* section key of the returned mapping maps to a non-empty section.
C8_SeccionPresenteNoVacia ==
  pc = "retornado" => \A s \in DOMAIN datos : ~SeccionVacia(datos[s])

\* The monetary-shaped tokens of the text, as extraer_totales finds them.
TokensMonetarios(f, txt) ==
  re_findall(IF f = "essa" THEN essa_patron.valores
             ELSE aire_patron.valores_totales, txt)

\* C9: a text with no monetary-shaped token has no Totals section in its
\* result (and with it no maximum, minimum or mean of an empty set).
C9_SinTokensSinTotales ==
  pc = "retornado" /\ TokensMonetarios(familia, texto) = <<>>
  => "totales" \notin DOMAIN datos

\* The number a token stands for: the float of its digits, separators
\* dropped.
NumeroDe(token) == float_(SelectSeq(token, LAMBDA c : c \in Digitos)).v

\* The statistics t are those of the non-empty list ns of floats: the
\* list, its greatest and its least element, and its sum over its count,
\* the sum and the quotient being those of floats.
EstadisticasDe(t, ns) ==
  /\ t.valores_encontrados = ns
  /\ \E i \in DOMAIN ns : t.valor_maximo = ns[i]
  /\ \A i \in DOMAIN ns : ~Menor(t.valor_maximo, ns[i])
  /\ \E i \in DOMAIN ns : t.valor_minimo = ns[i]
  /\ \A i \in DOMAIN ns : ~Menor(ns[i], t.valor_minimo)
  /\ t.promedio_valores = truediv(sum_(ns, 1, <<>>), Len(ns))

\* The statistics t are those of the tokens toks, and absent without one.
TotalesDe(t, toks) ==
  IF toks = <<>> THEN "valor_maximo" \notin DOMAIN t
  ELSE /\ {"valores_encontrados", "valor_maximo", "valor_minimo",
           "promedio_valores"} \subseteq DOMAIN t
       /\ EstadisticasDe(t, [i \in DOMAIN toks |-> NumeroDe(toks[i])])

RECURSIVE RachaDigitos(_, _)
RachaDigitos(T, i) ==
  IF i > Len(T) \/ T[i] \notin Digitos THEN 0 ELSE 1 + RachaDigitos(T, i + 1)

\* The length of the longest run of digits of T.
RachaMaxima(T) ==
  CHOOSE n \in {0} \cup {RachaDigitos(T, i) : i \in DOMAIN T} :
    \A i \in DOMAIN T : RachaDigitos(T, i) <= n

ClavesEstadisticas ==
  {"valores_encontrados", "valor_maximo", "valor_minimo", "promedio_valores"}

\* C11: a number of fewer than 7 digits never contributes to the Totals
\* statistics: for a text whose every maximal run of digits is shorter than
\* 7 (such as "123456"), valores_encontrados, valor_maximo, valor_minimo and
\* promedio_valores are all absent from the result.
C11_MenosDeSieteDigitos ==
  pc = "retornado" /\ RachaMaxima(texto) < 7
  => \/ "totales" \notin DOMAIN datos
     \/ DOMAIN datos.totales \cap ClavesEstadisticas = {}

\* A run over a text whose longest number has six digits has returned.
C11_SeisDigitos ==
  /\ pc = "retornado"
  /\ RachaMaxima(texto) = 6
  /\ "totales" \in DOMAIN datos

\* The fields of T: its pieces between single spaces.
RECURSIVE Campos(_)
Campos(T) ==
  IF \A i \in DOMAIN T : T[i] # " " THEN <<T>>
  ELSE LET p == CHOOSE i \in DOMAIN T :
                  T[i] = " " /\ \A j \in 1..(i - 1) : T[j] # " "
       IN <<SubSeq(T, 1, p - 1)>> \o Campos(SubSeq(T, p + 1, Len(T)))

\* The fields cs joined by single spaces.
RECURSIVE Juntar(_)
Juntar(cs) ==
  IF Len(cs) = 1 THEN cs[1] ELSE cs[1] \o <<" ">> \o Juntar(Tail(cs))

\* s is a non-empty text of characters of the class cl.
SoloDe(s, cl) == s # <<>> /\ \A i \in DOMAIN s : s[i] \in cl

EsUnidad(s) ==
  \/ s = <<"P", "e", "s", "o">>
  \/ s = <<"K", "W", "H">>
  \/ Len(s) >= 2 /\ s[1] = "K" /\ SoloDe(Tail(s), Digitos)

\* s writes an amount: digits, "," between them, at most one decimal part.
EsMonto(s) ==
  /\ SoloDe(s, Digitos \cup {",", "."})
  /\ s[1] \in Digitos /\ s[Len(s)] \in Digitos
  /\ ~float_(Quitar(s, ",")).exc

\* T is one well-formed charge line of 9 fields: number, 3-digit code,
\* upper-case description, unit, unit price, quantity, tax, balance and
\* period value (the description may be several words).
LineaBienFormada(T) ==
  LET c == Campos(T)
      n == Len(c)
  IN /\ n >= 9
     /\ SoloDe(c[1], Digitos)
     /\ Len(c[2]) = 3 /\ SoloDe(c[2], Digitos)
     /\ \A i \in 3..(n - 6) : SoloDe(c[i], Mayusculas)
     /\ EsUnidad(c[n - 5])
     /\ EsMonto(c[n - 4]) /\ EsMonto(c[n - 3])
     /\ SoloDe(c[n - 2], Digitos) /\ SoloDe(c[n - 1], Digitos)
     /\ EsMonto(c[n]) /\ SoloDe(c[n], Digitos \cup {","})

\* The LineItem the fields c of a well-formed line stand for.
LineItemDe(c) ==
  [numero |-> int_(c[1]), codigo |-> c[2],
   concepto |-> Juntar(SubSeq(c, 3, Len(c) - 6)),
   unidad |-> c[Len(c) - 5],
   valor_unidad |-> float_(Quitar(c[Len(c) - 4], ",")).v,
   cantidad |-> float_(Quitar(c[Len(c) - 3], ",")).v,
   iva |-> float_(c[Len(c) - 2]).v,
   saldo |-> float_(c[Len(c) - 1]).v,
   valor_mes |-> float_(Quitar(c[Len(c)], ",")).v]

\* C12: for a text that is one well-formed 9-field charge line the ESSA
\* line-item parser returns exactly one LineItem, whose fields are the
\* captured values converted in order, "," stripped before parsing; the
\* line "1 672 CPROG Peso 79059512.0000 1 0 0 79059512" yields numero 1,
\* codigo "672", valor_unidad 79059512.0, cantidad 1.0, iva 0.0, saldo 0.0
\* and valor_mes 79059512.0.
C12_UnaLineaUnLineItem ==
  pc = "retornado" /\ familia = "essa" /\ LineaBienFormada(texto)
  => /\ datos.conceptos_facturados = <<LineItemDe(Campos(texto))>>
     /\ texto = Muestras.linea_essa
        => datos.conceptos_facturados =
             << [numero |-> 1, codigo |-> <<"6", "7", "2">>, concepto |-> <<
                 "C", "P", "R", "O", "G">>,
                 unidad |-> <<"P", "e", "s", "o">>,
                 valor_unidad |-> Monto(<<"7", "9", "0", "5", "9", "5", "1",
                     "2">>, <<>>),
                 cantidad |-> Monto(<<"1">>, <<>>),
                 iva |-> Monto(<<>>, <<>>),
                 saldo |-> Monto(<<>>, <<>>),
                 valor_mes |-> Monto(<<"7", "9", "0", "5", "9", "5", "1", "2"
                     >>, <<>>)] >>

\* The first capture of the match m in txt, and nothing without a match.
Captura(txt, m) == IF m.ok THEN group(txt, m, 1) ELSE <<>>

\* Key k of section d holds the value vp of the primary match p when there
\* is one, else the value va of the alternate match a, and is absent
\* without either.
PrimarioOAlterno(d, k, p, vp, a, va) ==
  IF p.ok THEN k \in DOMAIN d /\ d[k] = vp
  ELSE IF a.ok THEN k \in DOMAIN d /\ d[k] = va
  ELSE k \notin DOMAIN d

\* C13: for each field with a primary and an alternate pattern (ESSA
\* codigo_cuenta_niu; Air-e customer nombre and fecha_emision) the value of
\* the result is the one captured by the primary pattern whenever the text
\* matches it, also when the alternate pattern matches too; the alternate
\* pattern's value is used only when the primary pattern has no match.
C13_PrimarioAntesQueAlterno ==
  pc = "retornado" =>
    IF familia = "essa"
    THEN PrimarioOAlterno(datos.datos_cliente, "codigo_cuenta_niu",
           re_search(essa_patron.niu, texto),
           Captura(texto, re_search(essa_patron.niu, texto)),
           re_search(essa_patron.niu_alt, texto),
           Captura(texto, re_search(essa_patron.niu_alt, texto)))
    ELSE /\ PrimarioOAlterno(datos.datos_cliente, "nombre",
              re_search(aire_patron.cliente, texto),
              strip(Captura(texto, re_search(aire_patron.cliente, texto))),
              re_search(aire_patron.cliente_alt, texto),
              <<"G", "E", "N", "E", "R", "A", "D", "O", "R", "A", " ", "Y",
                  " ", "C", "O", "M", "E", "R", "C", "I", "A", "L", "I", "Z",
                  "A", "D", "O", "R", "A", " ", "D", "E", " ", "E", "N", "E",
                  "R", "G", "I", "A", " ", "D", "E", "L", " ", "C", "A", "R",
                  "I", "B", "E">>)
         /\ PrimarioOAlterno(datos.periodo_facturacion, "fecha_emision",
              re_search(aire_patron.emision, texto),
              Captura(texto, re_search(aire_patron.emision, texto)),
              re_search(aire_patron.fecha_alt, texto),
              Captura(texto, re_search(aire_patron.fecha_alt, texto)))

\* The Air-e run over a text that matches the primary and the alternate
\* pattern of nombre and of fecha_emision, with different values, has
\* returned the primary ones.
C13_AmbosCoinciden ==
  /\ pc = "retornado"
  /\ familia = "aire"
  /\ re_search(aire_patron.cliente, texto).ok
  /\ re_search(aire_patron.cliente_alt, texto).ok
  /\ re_search(aire_patron.emision, texto).ok
  /\ re_search(aire_patron.fecha_alt, texto).ok
  /\ datos.datos_cliente.nombre = <<"A", "C", "M", "E">>
  /\ datos.periodo_facturacion.fecha_emision = <<"0", "3", "/", "0", "4", "/",
      "2", "0", "2", "4", " ", "1", "1", ":", "1", "2">>

\* The (prefijo, valor) pairs of the text, in text order.
ParesDeCodigo(f, txt) ==
  re_findall(IF f = "essa" THEN essa_patron.codigo ELSE aire_patron.codigo,
             txt)

\* C14: within one section a key is assigned at most once and keeps the
\* value of the first rule that matched; for the barcode keys: key
\* codigo_<prefix> holds the value of the first pair of the text with that
\* prefix, whatever pairs or patterns follow.
C14_PrimeraAsignacionQueda ==
  pc = "retornado" =>
    \A i \in DOMAIN ParesDeCodigo(familia, texto) :
      (\A j \in 1..(i - 1) :
         ParesDeCodigo(familia, texto)[j][1]
           # ParesDeCodigo(familia, texto)[i][1])
      => datos.codigos_barras[
           "codigo_" \o Cadena(ParesDeCodigo(familia, texto)[i][1])]
         = IF familia = "essa"
           THEN strip(ParesDeCodigo(familia, texto)[i][2])
           ELSE ParesDeCodigo(familia, texto)[i][2]

\* The pattern of "TOTAL A PAGAR <amount>" of family f.
PatronTotal(f) == IF f = "essa" THEN essa_patron.total ELSE aire_patron.total

\* The positions of txt where "TOTAL A PAGAR <amount>" occurs.
Ocurrencias(f, txt) ==
  {q \in DOMAIN txt : EnPos(PatronTotal(f), txt, q).ok}

\* The amount written at the last occurrence, with the separators of the
\* family dropped.
UltimoTotal(f, txt) ==
  LET q == CHOOSE q \in Ocurrencias(f, txt) :
             \A q2 \in Ocurrencias(f, txt) : q2 <= q
      s == group(txt, EnPos(PatronTotal(f), txt, q), 1)
  IN float_(IF f = "essa" THEN Quitar(s, ",")
            ELSE Quitar(Quitar(s, ","), ".")).v

\* C15: when "TOTAL A PAGAR <amount>" occurs several times in the text,
\* informacion_general.total_pagar is the amount of the last occurrence in
\* text order, in both families.
C15_UltimoTotalAPagar ==
  pc = "retornado" /\ Ocurrencias(familia, texto) # {}
  => datos.informacion_general.total_pagar = UltimoTotal(familia, texto)

\* A run over a text with two occurrences has returned the amount 77 of
\* the second, where the first reads 1,234.
C15_DosOcurrencias ==
  /\ pc = "retornado"
  /\ Cardinality(Ocurrencias(familia, texto)) = 2
  /\ texto = Unir(<<1, 12>>)
  /\ datos.informacion_general.total_pagar = Monto(<<"7", "7">>, <<>>)

\* C16: every decimal post-processing step round-trips under the separator
\* convention of its field: a number formatted with that convention (ESSA:
\* "," between thousands; Air-e: "." between thousands and "," before the
\* decimals, with or without a two-digit decimal part) and read back by the
\* post-processing of the field is the original number.
C16_IdaYVuelta ==
  pc = "retornado" =>
    \A x \in MontosPrueba :
      /\ familia = "essa" /\ texto = TextoConMonto("linea_essa", x)
         => datos.conceptos_facturados[1].valor_unidad = x
      /\ familia = "aire" /\ texto = TextoConMonto("pago_aire", x)
         => datos.informacion_pago.subtotal_energia = x
      /\ familia = "aire" /\ texto = TextoConMonto("detalle_aire", x)
         => datos.conceptos_facturados[1].valor = x

\* C17: every LineItem the ESSA extractor returns, whatever tier supplied
\* it and whatever the text, has a sequence number numero >= 1.
C17_NumeroPositivo ==
  pc = "retornado" /\ familia = "essa"
  => \A i \in DOMAIN datos.conceptos_facturados :
       datos.conceptos_facturados[i].numero >= 1

(***************************************************************************)
(* ExcelWriter.escribir_datos called by itself: in the mapping handed over *)
(* every section key is absent, maps to an empty section, or maps to a     *)
(* section with data.                                                      *)
(***************************************************************************)
\* One section with data for every key of the Air-e result.
SeccionesConDatos ==
  [informacion_general |->
     [nic |-> <<"7">>, total_pagar |-> Monto(<<"7", "7">>, <<>>)],
   datos_cliente |-> [nombre |-> <<"A", "C", "M", "E">>],
   datos_operador |-> [nombre |-> <<"A", "I", "R", "-", "E">>],
   periodo_facturacion |-> [periodo_facturado |-> <<"0", "1", "/", "2", "0",
       "2", "4">>],
   conceptos_facturados |-> aire_conceptos_conocidos,
   informacion_pago |-> [subtotal_energia |-> Monto(<<"1", "2", "3", "4"
       >>, <<>>)],
   datos_tecnicos |-> [sistema |-> <<"S", "D", "L">>],
   totales |-> [total_pagar_mes |-> Monto(<<"7", "7">>, <<>>)],
   codigos_barras |-> [codigo_415 |-> <<"1">>]]

\* The mappings handed over: any keys, each empty or with data.
Resultados ==
  UNION {[S -> {"vacia", "con_datos"}] : S \in SUBSET DOMAIN SeccionesConDatos}

InitExcel ==
  /\ familia = "aire"
  /\ entrada = "ExcelWriter"
  /\ entregado = <<>>
  /\ texto = <<>>
  /\ \E r \in Resultados :
       datos = [k \in DOMAIN r |->
                  IF r[k] = "vacia" THEN <<>> ELSE SeccionesConDatos[k]]
  /\ resultado = DictVacio
  /\ conceptos = <<>>
  /\ tiers = <<>>
  /\ corrio = <<>>
  /\ pc = "escribir_datos"
  /\ salida = -1
  /\ archivo = "presente"
  /\ hojas = <<Hoja("Sheet", 0)>>
  /\ guardado = 0
  /\ anteriores = <<>>
  /\ argv = SinArgumentos
  /\ dependencias = "completas"
  /\ globales = <<>>
  /\ abierto = Ninguno
  /\ archivo_salida = Configuracion("aire").output_excel
  /\ salvado = Ninguno
  /\ disponibles = {"pdfplumber", "pypdf", "PyPDF2"}
  /\ documento = DocumentoLegible
  /\ lector = LectorNuevo
  /\ invocados = <<>>
  /\ retorno = SinRetorno
  /\ devuelto = <<>>
  /\ extracciones = 0

NextExcel ==
  \/ EscribirDatos
  \/ CrearHojaResumen
  \/ CrearHojaSeccion
  \/ CrearHojaDatosCompletos
  \/ Guardar

SpecExcel == InitExcel /\ [][NextExcel]_vars

\* The titles of the sheets of the workbook.
Titulos == {hojas[i].titulo : i \in DOMAIN hojas}

\* The section keys of the mapping that hold some data.
SeccionesNoVacias == {k \in DOMAIN datos : datos[k] # <<>>}

\* C18: escribir_datos produces one workbook with one sheet for every
\* section of the result, plus the sheets "Datos Completos" and "Resumen":
\* every non-empty section of the mapping has its own sheet.
C18_UnaHojaPorSeccion ==
  pc = "escrito" =>
    /\ "Resumen" \in Titulos
    /\ "Datos Completos" \in Titulos
    /\ Cardinality(Titulos) = 2 + Cardinality(SeccionesNoVacias)

\* C19: escribir_datos never faults on missing data: whatever section keys
\* are absent or map to an empty section it runs to its end, creates no
\* sheet for those sections, creates "Resumen" and "Datos Completos" and
\* saves the workbook.
C19_SinDatosSinFalla ==
  /\ pc # "excepcion"
  /\ pc = "escrito" \/ ENABLED NextExcel
  /\ pc = "escrito" =>
       /\ guardado = 1
       /\ "Resumen" \in Titulos
       /\ "Datos Completos" \in Titulos
       /\ \A i \in DOMAIN HojasDeSeccion :
            HojasDeSeccion[i][1] \notin SeccionesNoVacias
            => HojasDeSeccion[i][2] \notin Titulos

\* The workbook of a mapping with one key absent, one section empty and
\* one with data is saved with the sheet of the last and the two fixed ones.
C19_AusenteVaciaYConDatos ==
  /\ pc = "escrito"
  /\ "informacion_general" \notin DOMAIN datos
  /\ "datos_cliente" \in DOMAIN datos /\ datos.datos_cliente = <<>>
  /\ SeccionesNoVacias = {"informacion_pago"}
  /\ Titulos = {"Resumen", "Información de Pago", "Datos Completos"}
  /\ guardado = 1

\* C20: in one run of main() the workbook is written exactly once, as the
\* last step: the save happens after the text and the fields have been
\* extracted and all sheets are built, nothing of the workbook changes
\* after it, a run of main() that ends well has saved once (--help ends
\* before main() is called), and a run that exits with an error before the
\* write step (no PDF file, no text, an exception of the extraction) has
\* written nothing.
C20_UnaEscrituraAlFinal ==
  /\ [][guardado' # guardado
        => /\ guardado = 0 /\ guardado' = 1
           /\ texto # <<>> /\ texto = entregado
           /\ datos = resultado
           /\ DOMAIN datos = {Secciones(familia)[i] :
                                i \in DOMAIN Secciones(familia)}
           /\ "Resumen" \in Titulos /\ "Datos Completos" \in Titulos
           /\ \A i \in DOMAIN HojasDeSeccion :
                HojasDeSeccion[i][1] \in SeccionesNoVacias
                => HojasDeSeccion[i][2] \in Titulos]_vars
  /\ [][guardado = 1 => UNCHANGED <<hojas, datos, texto, guardado>>]_vars
  /\ [](salida = 0 /\ ~argv.ayuda => guardado = 1)
  /\ [](salida = 1 => guardado = 0)

\* A run of main() has ended well with its workbook saved.
C20_EscritoYTerminado ==
  /\ entrada = "main"
  /\ pc = "fin"
  /\ salida = 0
  /\ guardado = 1
  /\ Cardinality(Titulos) > 2

\* The codes of the four known ESSA LineItems, in their order.
CodigosConocidos ==
  << <<"6", "7", "2">>, <<"3", "8", "4">>, <<"6", "3", "6">>,
     <<"4", "9", "9">> >>

\* The body of tier c ran in the call under way.
TierCAlcanzado == \E i \in DOMAIN corrio : corrio[i] = "c"

\* C29: whenever extraer_conceptos_facturados returns, in either family,
\* its list holds at least one LineItem; in the ESSA family a tier c that
\* was reached leaves exactly four LineItems, numbered 1 to 4 and with the
\* codes 672, 384, 636, 499 in that order, whether the text holds their
\* lines or not.
C29_ConceptosNuncaVacios ==
  /\ Len(tiers) = 3 => tiers[3] # <<>>
  /\ "conceptos_facturados" \in DOMAIN resultado
       => resultado.conceptos_facturados # <<>>
  /\ pc = "retornado" => datos.conceptos_facturados # <<>>
  /\ familia = "essa" /\ Len(tiers) = 3 /\ TierCAlcanzado
       => /\ Len(tiers[3]) = Len(CodigosConocidos)
          /\ \A i \in DOMAIN CodigosConocidos :
               /\ tiers[3][i].numero = i
               /\ tiers[3][i].codigo = CodigosConocidos[i]

\* An ESSA text that holds the line of the first known LineItem only:
\* tier c was reached and returned, the first LineItem with the amounts
\* of the text and the fourth with the predefined ones.
C29_TierCUnoHallado ==
  /\ familia = "essa"
  /\ texto = Fragmentos[6]
  /\ Len(tiers) = 3
  /\ TierCAlcanzado
  /\ tiers[3][1] # essa_conceptos_literales[1]
  /\ tiers[3][4] = essa_conceptos_literales[4]

\* C30: in the result of extraer_totales the four statistics are all
\* present or all absent; when they are present valores_encontrados is not
\* empty, valor_maximo and valor_minimo are elements of it, and
\* valor_minimo <= promedio_valores <= valor_maximo.
C30_EstadisticasOrdenadas ==
  "totales" \in DOMAIN resultado
  /\ DOMAIN resultado.totales \cap ClavesEstadisticas # {}
  => /\ ClavesEstadisticas \subseteq DOMAIN resultado.totales
     /\ resultado.totales.valores_encontrados # <<>>
     /\ \E i \in DOMAIN resultado.totales.valores_encontrados :
          resultado.totales.valores_encontrados[i]
            = resultado.totales.valor_maximo
     /\ \E i \in DOMAIN resultado.totales.valores_encontrados :
          resultado.totales.valores_encontrados[i]
            = resultado.totales.valor_minimo
     /\ ~Menor(resultado.totales.promedio_valores,
               resultado.totales.valor_minimo)
     /\ ~Menor(resultado.totales.valor_maximo,
               resultado.totales.promedio_valores)


C21_OpcionesDeterminanArchivos ==
  familia = "aire" /\ entrada = "main"
  => /\ argv.pdf # Ninguno /\ abierto # Ninguno => abierto = argv.pdf
     /\ argv.output # Ninguno /\ salvado # Ninguno => salvado = argv.output


(***************************************************************************)
(* The operations on a PDFReader.                                          *)
(***************************************************************************)
\* What the operations on the reader leave alone.
fuera_del_lector ==
  <<familia, entrada, entregado, texto, datos, resultado, conceptos, tiers,
    corrio, archivo, hojas, guardado, anteriores, argv, dependencias,
    globales, abierto, archivo_salida, salvado, disponibles, documento>>

InitPDF ==
  /\ familia = "aire"
  /\ entrada = "PDFReader"
  /\ entregado = <<>>
  /\ texto = <<>>
  /\ datos = DictVacio
  /\ resultado = DictVacio
  /\ conceptos = <<>>
  /\ tiers = <<>>
  /\ corrio = <<>>
  /\ pc = "lector"
  /\ salida = -1
  /\ archivo = "presente"
  /\ hojas = <<>>
  /\ guardado = 0
  /\ anteriores = <<>>
  /\ argv = SinArgumentos
  /\ dependencias = "completas"
  /\ globales = <<>>
  /\ abierto = Ninguno
  /\ archivo_salida = Ninguno
  /\ salvado = Ninguno
  /\ disponibles \in SUBSET {"pdfplumber", "pypdf", "PyPDF2"}
  /\ documento \in Documentos_PDF(disponibles)
  /\ lector = LectorNuevo
  /\ invocados = <<>>
  /\ retorno = SinRetorno
  /\ devuelto = <<>>
  /\ extracciones = 0

\* The reader after the extraction x: sys.exit() ends the run.
Extraido(x) ==
  /\ lector' = x.lector
  /\ invocados' = x.invocados
  /\ extracciones' = extracciones + 1
  /\ devuelto' = IF Verdadero(x.r) THEN x.r.v ELSE devuelto
  /\ pc' = IF x.r.tipo = "salida" THEN "fin" ELSE pc
  /\ salida' = IF x.r.tipo = "salida" THEN x.r.codigo ELSE salida
  /\ UNCHANGED fuera_del_lector

\* An extraction that op began.
Extraccion(op, x) ==
  /\ pc = "lector"
  /\ extracciones < MaxExtracciones
  /\ Extraido(x)
  /\ retorno' = [op |-> op, r |-> x.r]

\* pdf_reader.extraer_texto()
ExtraerTexto ==
  Extraccion("extraer_texto",
             PDFReader_extraer_texto(lector, documento, disponibles))

\* pdf_reader.extraer_texto_con_fallback()
ExtraerTextoConFallback ==
  Extraccion("extraer_texto_con_fallback",
             extraer_texto_con_fallback(lector, documento, disponibles))

\* main(): texto_completo = pdf_reader.extraer_texto(); if not
\* texto_completo: ... sys.exit(1), and except Exception: ... sys.exit(1)
MainLeido(x) ==
  /\ Extraido([x EXCEPT !.r = IF Verdadero(x.r) THEN x.r ELSE Exit(1)])
  /\ retorno' = [op |-> "main",
                 texto_completo |-> x.r,
                 rama |-> x.r.tipo \in {"str", "None"} /\ ~Verdadero(x.r),
                 r |-> IF Verdadero(x.r) THEN x.r ELSE Exit(1)]

\* main(): pdf_reader = PDFReader(pdf_path) and the reading of its text
MainLeer ==
  /\ pc = "lector"
  /\ retorno = SinRetorno
  /\ MainLeido(PDFReader_extraer_texto(LectorNuevo, documento, disponibles))

\* pdf_reader.obtener_texto_pagina(num_pagina)
ObtenerTextoPagina ==
  /\ pc = "lector"
  /\ \E num_pagina \in (0 - 1)..MaxPaginas :
       retorno' = [op |-> "obtener_texto_pagina", num_pagina |-> num_pagina,
                   r |-> obtener_texto_pagina(lector, num_pagina)]
  /\ UNCHANGED <<lector, invocados, devuelto, extracciones, pc, salida>>
  /\ UNCHANGED fuera_del_lector

\* re.findall(patron, self.texto_completo, flags), patron one character
buscar_patron(l, patron) ==
  [tipo |-> "list", v |-> SelectSeq(l.texto_completo, LAMBDA c : c = patron)]

\* The least element of K.
Primero(K) == CHOOSE i \in K : \A k \in K : i <= k

\* re.search(inicio(.*?)fin, t, re.DOTALL), inicio and fin one character:
\* the places of an inicio that a fin follows, where the match begins and
\* where its fin is.
DesdeInicio(t, inicio, fin) ==
  {i \in 1..Len(t) : t[i] = inicio /\ \E j \in (i + 1)..Len(t) : t[j] = fin}

PosInicio(t, inicio, fin) == Primero(DesdeInicio(t, inicio, fin))

PosFin(t, inicio, fin) ==
  Primero({j \in (PosInicio(t, inicio, fin) + 1)..Len(t) : t[j] = fin})

extraer_seccion(l, inicio, fin) ==
  IF DesdeInicio(l.texto_completo, inicio, fin) = {} THEN None
  ELSE Str(strip(SubSeq(l.texto_completo,
                        PosInicio(l.texto_completo, inicio, fin) + 1,
                        PosFin(l.texto_completo, inicio, fin) - 1)))

\* len(re.findall(r'\d+[\d,\.]*', t)): the digits that no earlier match holds
ValoresNumericos(t) ==
  Cardinality({i \in 1..Len(t) :
     /\ t[i] \in Digitos
     /\ ~\E k \in 1..(i - 1) :
          /\ t[k] \in Digitos
          /\ \A m \in k..(i - 1) : t[m] \in Digitos \cup {",", "."}})

\* len(t.split())
Palabras(t) ==
  Cardinality({i \in 1..Len(t) :
     t[i] \notin Espacios /\ (i = 1 \/ t[i - 1] \in Espacios)})

obtener_estadisticas(l) ==
  [tipo |-> "dict",
   v |-> [num_paginas |-> Len(l.texto_por_pagina),
          num_caracteres |-> Len(l.texto_completo),
          num_lineas |-> Len(SelectSeq(l.texto_completo, LAMBDA c : c = "\n")) + 1,
          num_palabras |-> Palabras(l.texto_completo),
          metodo_extraccion |-> l.metodo_usado,
          num_valores_numericos |-> ValoresNumericos(l.texto_completo)]]

\* archivo.write(self.texto_completo), or the exception of open()
guardar_texto_archivo(l, abre) ==
  IF abre THEN [tipo |-> "None", v |-> <<>>, escrito |-> l.texto_completo]
  ELSE Exception

\* An operation that begins with `if not self.texto_completo:
\* self.extraer_texto()`: x is the extraction, valor what the operation
\* gives when the extraction returned.
Auxiliado(op, x, valor) ==
  /\ pc = "lector"
  /\ lector.texto_completo = <<>> => extracciones < MaxExtracciones
  /\ lector' = x.lector
  /\ invocados' = IF lector.texto_completo = <<>> THEN x.invocados
                  ELSE invocados
  /\ extracciones' = IF lector.texto_completo = <<>> THEN extracciones + 1
                     ELSE extracciones
  /\ retorno' = [op |-> op,
                 extrajo |-> lector.texto_completo = <<>>,
                 antes |-> lector.texto_completo,
                 r |-> IF x.r.tipo \in {"excepcion", "salida"} THEN x.r
                       ELSE valor]
  /\ pc' = IF x.r.tipo = "salida" THEN "fin" ELSE pc
  /\ salida' = IF x.r.tipo = "salida" THEN x.r.codigo ELSE salida
  /\ UNCHANGED devuelto
  /\ UNCHANGED fuera_del_lector

\* pdf_reader.buscar_patron(patron)
BuscarPatron ==
  \E patron \in {"A"} :
    Auxiliado("buscar_patron",
              ConTextoCompleto(lector, documento, disponibles),
              buscar_patron(ConTextoCompleto(lector, documento, disponibles).lector,
                            patron))

\* pdf_reader.extraer_seccion(inicio, fin)
ExtraerSeccion ==
  \E inicio \in {"A"}, fin \in {"7"} :
    Auxiliado("extraer_seccion",
              ConTextoCompleto(lector, documento, disponibles),
              extraer_seccion(ConTextoCompleto(lector, documento, disponibles).lector,
                              inicio, fin))

\* pdf_reader.obtener_estadisticas()
ObtenerEstadisticas ==
  Auxiliado("obtener_estadisticas",
            ConTextoCompleto(lector, documento, disponibles),
            obtener_estadisticas(ConTextoCompleto(lector, documento, disponibles).lector))

\* pdf_reader.guardar_texto_archivo(ruta_salida)
GuardarTextoArchivo ==
  \E abre \in BOOLEAN :
    Auxiliado("guardar_texto_archivo",
              ConTextoCompleto(lector, documento, disponibles),
              guardar_texto_archivo(ConTextoCompleto(lector, documento, disponibles).lector,
                                    abre))

NextPDF ==
  \/ MainLeer
  \/ ExtraerTexto
  \/ ExtraerTextoConFallback
  \/ ObtenerTextoPagina
  \/ BuscarPatron
  \/ ExtraerSeccion
  \/ ObtenerEstadisticas
  \/ GuardarTextoArchivo

SpecPDF == InitPDF /\ [][NextPDF]_vars


\* What the method nombre yields on the document, whatever was tried before.
Rinde(nombre) == Metodo(LectorNuevo, documento, nombre).r

\* The methods of orden that import, in that order.
Importados(orden) ==
  SelectSeq(orden, LAMBDA nombre : Disponible(disponibles, nombre))

\* The places in orden of the methods that yield a text that is not empty.
ConTexto(orden) ==
  {k \in DOMAIN orden : Rinde(orden[k]).tipo = "str" /\ Rinde(orden[k]).v # <<>>}

\* The methods of orden were invoked up to the first that yields a text,
\* that text was returned and metodo_usado names its method; when none
\* yields a text every method was invoked and the outcome is one of fin.
PrimeroConTexto(orden, fin) ==
  IF ConTexto(orden) = {}
  THEN invocados = orden /\ retorno.r \in fin
  ELSE /\ invocados = SubSeq(orden, 1, Primero(ConTexto(orden)))
       /\ retorno.r = Rinde(orden[Primero(ConTexto(orden))])
       /\ lector.metodo_usado = orden[Primero(ConTexto(orden))]

\* C23: extraer_texto tries the libraries that import in the order
\* pdfplumber, pypdf, PyPDF2; it returns the text of the first that yields a
\* text that is not empty, invokes none after it and sets metodo_usado to
\* its name; a library that raises or yields no text is skipped.
C23_PrimerRespaldoConTexto ==
  retorno.op = "extraer_texto"
  => PrimeroConTexto(Importados(<<"pdfplumber", "pypdf", "PyPDF2">>),
                     {Exception, Exit(1)})

\* pdfplumber raised, pypdf found no text and the text of PyPDF2 was
\* returned.
C23_DosSaltados ==
  /\ retorno.op = "extraer_texto"
  /\ retorno.r.tipo = "str"
  /\ invocados = <<"pdfplumber", "pypdf", "PyPDF2">>
  /\ documento.modo["pdfplumber"].falla # 0
  /\ ~documento.modo["pypdf"].lee
  /\ lector.metodo_usado = "PyPDF2"

\* C24: extraer_texto_con_fallback never raises: it tries pdfplumber, pypdf,
\* PyPDF2 and the stream method in that order, returns the first text that
\* is not empty, and returns the empty string when every method that
\* imports fails or yields no text, and when no library imports.
C24_FallbackNuncaLanza ==
  retorno.op = "extraer_texto_con_fallback"
  => /\ retorno.r.tipo = "str"
     /\ PrimeroConTexto(
          Importados(<<"pdfplumber", "pypdf", "PyPDF2", "alternativo">>),
          {Str(<<>>)})

\* The four methods were invoked, none gave a text, and "" was returned.
C24_TodosFallan ==
  /\ retorno.op = "extraer_texto_con_fallback"
  /\ Len(invocados) = 4
  /\ \E b \in DOMAIN documento.modo : documento.modo[b].falla # 0
  /\ retorno.r = Str(<<>>)

\* C25: after a successful extraction obtener_texto_pagina(n) returns the
\* cleaned text of page n (0-based) of the document for every page that
\* exists and None for every other n, and never raises.
C25_PaginaDelDocumento ==
  retorno.op = "obtener_texto_pagina" /\ lector.metodo_usado # Ninguno
  => retorno.r =
       IF retorno.num_pagina \in 0..(Len(documento.paginas) - 1)
       THEN Str(_limpiar_texto(documento.paginas[retorno.num_pagina + 1]))
       ELSE None

\* C26: extraer_texto never returns an empty string or None: it returns a
\* text that is not empty, raises when some library imports and none gave a
\* text, or exits with status 1 when no library imports; the branch `if not
\* texto_completo` of main() is never taken.
C26_ExtraerTextoNuncaVacio ==
  /\ retorno.op = "extraer_texto"
     => /\ retorno.r.tipo \in {"str", "excepcion", "salida"}
        /\ retorno.r.tipo = "str" => retorno.r.v # <<>>
        /\ retorno.r.tipo = "excepcion" => disponibles # {}
        /\ retorno.r.tipo = "salida" => disponibles = {} /\ retorno.r.codigo = 1
  /\ retorno.op = "main"
     => /\ ~retorno.rama
        /\ retorno.texto_completo.tipo = "str" => retorno.texto_completo.v # <<>>

\* A library read the one page of the document, whose text cleans to the
\* empty string, and extraer_texto raised.
C26_PaginaEnBlanco ==
  /\ retorno.op = "extraer_texto"
  /\ retorno.r.tipo = "excepcion"
  /\ Len(documento.paginas) = 1
  /\ lector.texto_por_pagina # <<>>
  /\ \A i \in DOMAIN lector.texto_por_pagina : lector.texto_por_pagina[i] = <<>>

\* C27: whenever extraer_texto has returned, texto_completo is the texts of
\* texto_por_pagina joined with newlines, and texto_por_pagina holds each
\* page of the document at most once.
C27_EstadoCoherente ==
  retorno.op = "extraer_texto" /\ retorno.r.tipo = "str"
  => /\ lector.texto_completo = join_lineas(lector.texto_por_pagina)
     /\ \E f \in [DOMAIN lector.texto_por_pagina -> DOMAIN documento.paginas] :
          /\ \A i, j \in DOMAIN f : i # j => f[i] # f[j]
          /\ \A i \in DOMAIN f :
               lector.texto_por_pagina[i] = _limpiar_texto(documento.paginas[f[i]])

\* C28: after extraer_texto or extraer_texto_con_fallback returned a text T
\* that is not empty, texto_completo is T; buscar_patron, extraer_seccion,
\* obtener_estadisticas and guardar_texto_archivo begin an extraction only
\* while texto_completo is empty, and none after such a T was returned.
C28_TextoCompletoEsElDevuelto ==
  /\ retorno.op \in {"extraer_texto", "extraer_texto_con_fallback"}
     /\ retorno.r.tipo = "str" /\ retorno.r.v # <<>>
     => lector.texto_completo = retorno.r.v
  /\ retorno.op \in {"buscar_patron", "extraer_seccion", "obtener_estadisticas",
                     "guardar_texto_archivo"}
     => /\ retorno.extrajo <=> retorno.antes = <<>>
        /\ devuelto # <<>> => ~retorno.extrajo
====
